---- MODULE Spec2Model ----
(***************************************************************************)
(* Three-body simulation: the fixed-step accumulators (integer microsecond *)
(* and floating second), the RK4 integrator, the two drivers of the live   *)
(* state, and the heatmap explorer's stability evaluator.                   *)
(*                                                                         *)
(* Number representation.                                                  *)
(*  - Elapsed time handed to the integer accumulator is a JS double in     *)
(*    seconds; here it is an integer count of tenths of a microsecond, so  *)
(*    that Math.round(dt * 1000000) is a real rounding.                    *)
(*  - The floating accumulator is computed in IEEE-754 binary64, exactly:  *)
(*    a double below 1.0 is a whole number of 2^-59 ("quanta"), kept as    *)
(*    two limbs <<hi, lo>> in base 2^30, and every sum or difference is    *)
(*    rounded to 53 significant bits, ties to even.                        *)
(*  - Positions, velocities and masses are fixed point with Scale units    *)
(*    per 1.0, each stored value rounded to the nearest unit; a division   *)
(*    by zero yields NaN, which propagates as in JS.                       *)
(*  - A step size handed to the integrator is a whole number of            *)
(*    milliseconds.                                                        *)
(***************************************************************************)
EXTENDS Integers, Sequences, FiniteSets, TLC

VARIABLES
    slowSim,     \* IntegerAccumulatorTest instance driven with the slow dt
    fastSim,     \* IntegerAccumulatorTest instance driven with the fast dt
    harness,     \* what the driving script has fed each of the two so far
    script,      \* the target-time script: its constants and loop position
    sim1,        \* PhysicsEngine with the floating accumulator
    sim2,        \* a second one, driven at another dt
    usSim,       \* PhysicsEngine with the integer microsecond accumulator
    probe,       \* the driving script's loop position and what it counted
    heap,        \* the config objects (arrays of plain body objects) by reference
    app,         \* init()'s closure: config (a reference) and isRunning;
                 \* pauseBtn is the text of the pause button
    explorer,    \* the HeatmapExplorer's fields
    evalr,       \* the running simStability call: its locals and its result
    page,        \* js/main.js: physics, isPaused, simulationSpeed
    requested    \* the window's requested animation frames not yet run

accVars == <<slowSim, fastSim, harness, script>>
engineVars == <<sim1, sim2, usSim, probe>>
appVars == <<heap, app, explorer, evalr, page, requested>>

vars == <<slowSim, fastSim, harness, script, sim1, sim2, usSim, probe,
          heap, app, explorer, evalr, page, requested>>

-----------------------------------------------------------------------------
(* IEEE-754 binary64 below 1.0: <<hi, lo>> is (hi * 2^30 + lo) * 2^-59      *)

Limb == 2^30

\* The number of bits of n: 0 for 0, 1 for 1, 2 for 2 and 3, ...
RECURSIVE BitLength(_)
BitLength(n) == IF n = 0 THEN 0 ELSE 1 + BitLength(n \div 2)

\* The exact value d rounded to a double: 53 significant bits, ties to
\* the even mantissa. The bits dropped are the lowest BitLength(hi) - 23
\* bits of lo.
DRound(d) ==
    LET s    == BitLength(d[1]) - 23
        q    == IF s > 0 THEN 2^s ELSE 1
        r    == d[2] % q
        down == d[2] - r
        up   == 2 * r > q \/ (2 * r = q /\ (d[2] \div q) % 2 = 1)
        lo   == IF up THEN down + q ELSE down
    IN  IF lo >= Limb THEN <<d[1] + 1, lo - Limb>> ELSE <<d[1], lo>>

\* a + b and a - b (for a >= b) in double arithmetic.
DAdd(a, b) ==
    LET lo == a[2] + b[2]
    IN  DRound(IF lo >= Limb THEN <<a[1] + b[1] + 1, lo - Limb>>
                             ELSE <<a[1] + b[1], lo>>)

DSub(a, b) ==
    LET lo == a[2] - b[2]
    IN  DRound(IF lo < 0 THEN <<a[1] - b[1] - 1, lo + Limb>>
                         ELSE <<a[1] - b[1], lo>>)

\* a >= b and a < b
DGeq(a, b) == a[1] > b[1] \/ (a[1] = b[1] /\ a[2] >= b[2])
DLess(a, b) == ~DGeq(a, b)

DZero == <<0, 0>>

\* The doubles nearest the decimal literals of the source:
\* 0.01 = 0x1.47ae147ae147bp-7 = 5764607523034235 * 2^-59,
\* 0.15 = 0x1.3333333333333p-3 = 5404319552844595 * 2^-55,
\* 0.30 = 0x1.3333333333333p-2 = 5404319552844595 * 2^-54,
\* 0.004 = 0x1.0624dd2f1a9fcp-8, 0.025 = 0x1.999999999999ap-6,
\* 0.05 = 0x1.999999999999ap-5
D001 == <<5368709, 128849019>>
D015 == <<80530636, 858993456>>
D030 == <<161061273, 644245088>>
D0004 == <<2147483, 695784702>>
D0025 == <<13421772, 858993460>>
D005 == <<26843545, 644245096>>

-----------------------------------------------------------------------------
(* Numbers of the physics: fixed point, Scale units per 1.0, or NaN         *)

Scale == 2

\* n as a Number, and 0.5
Num(n) == n * Scale
Half == Scale \div 2

\* The non-finite result of a division by zero (0 * Infinity, 0 / 0).
NaN == -(2^30)

Abs(a) == IF a < 0 THEN -a ELSE a

\* a / b to the nearest whole unit, halves away from zero (b # 0).
RoundDiv(a, b) ==
    LET q == (Abs(a) \div Abs(b))
               + (IF 2 * (Abs(a) % Abs(b)) >= Abs(b) THEN 1 ELSE 0)
    IN  IF (a < 0) = (b < 0) THEN q ELSE -q

NumAdd(a, b) == IF a = NaN \/ b = NaN THEN NaN ELSE a + b
NumSub(a, b) == IF a = NaN \/ b = NaN THEN NaN ELSE a - b

\* a * s for a scalar s = <<num, den>>, an exact ratio; the product is
\* rounded once, when it is stored. A zero denominator gives NaN.
NumScale(a, s) ==
    IF a = NaN \/ s[1] = NaN \/ s[2] = NaN \/ s[2] = 0 THEN NaN
    ELSE RoundDiv(a * s[1], s[2])

\* a * b and a / b of two Numbers
NumMul(a, b) == NumScale(a, <<b, Scale>>)
NumDiv(a, b) == NumScale(a, <<Scale, b>>)

\* a > b; false when either is NaN
NumGt(a, b) == a # NaN /\ b # NaN /\ a > b

\* Math.max(a, b): NaN when either is NaN
NumMax(a, b) == IF a = NaN \/ b = NaN THEN NaN ELSE IF a > b THEN a ELSE b

\* The largest r with r * r <= n, for 0 <= n < 2^31
RECURSIVE SqrtSearch(_, _, _)
SqrtSearch(n, lo, hi) ==
    IF hi - lo <= 1 THEN lo
    ELSE LET mid == (lo + hi) \div 2
         IN  IF mid * mid <= n THEN SqrtSearch(n, mid, hi)
                               ELSE SqrtSearch(n, lo, mid)

ISqrt(n) == SqrtSearch(n, 0, 46341)

-----------------------------------------------------------------------------
(* class Vector                                                             *)

Vector(x, y, z) == [x |-> x, y |-> y, z |-> z]

add(u, v) == Vector(NumAdd(u.x, v.x), NumAdd(u.y, v.y), NumAdd(u.z, v.z))
sub(u, v) == Vector(NumSub(u.x, v.x), NumSub(u.y, v.y), NumSub(u.z, v.z))
mult(u, s) == Vector(NumScale(u.x, s), NumScale(u.y, s), NumScale(u.z, s))

\* Math.sqrt(x * x + y * y + z * z)
mag(u) ==
    IF u.x = NaN \/ u.y = NaN \/ u.z = NaN THEN NaN
    ELSE ISqrt(u.x * u.x + u.y * u.y + u.z * u.z)

IsNaNVector(u) == u.x = NaN \/ u.y = NaN \/ u.z = NaN

-----------------------------------------------------------------------------
(* class PhysicsEngine: accelerations and the RK4 integrator                *)

\* this.G = 1000; this.softening = 5
G == 1000
softening == 5

\* this.fixedDt = 0.01, in milliseconds
fixedDt == 10

\* A step size dt (milliseconds) as the scalars dt, dt * 0.5 and dt / 6.
DtScalar(dt) == <<dt, 1000>>
HalfDtScalar(dt) == <<dt, 2000>>
SixthDtScalar(dt) == <<dt, 6000>>

\* The inner statements with acc[j] = acc[j].add(...): the force on j has
\* the sign of the force on i.
PairForceSameSign(state, acc, i, j) ==
    LET rVec   == sub(state[j].pos, state[i].pos)
        rMag   == mag(rVec)
        distSq == NumAdd(NumMul(rMag, rMag), NumMul(Num(softening), Num(softening)))
        fVal   == NumDiv(NumMul(NumMul(Num(G), state[i].mass), state[j].mass), distSq)
        fVec   == mult(rVec, <<fVal, rMag>>)
    IN  [acc EXCEPT ![i] = add(@, mult(fVec, <<Scale, state[i].mass>>)),
                    ![j] = add(@, mult(fVec, <<Scale, state[j].mass>>))]

\* The inner statements of getAccelerations for the pair i < j.
PairForce(state, acc, i, j) ==
    LET rVec   == sub(state[j].pos, state[i].pos)
        rMag   == mag(rVec)
        distSq == NumAdd(NumMul(rMag, rMag), NumMul(Num(softening), Num(softening)))
        fVal   == NumDiv(NumMul(NumMul(Num(G), state[i].mass), state[j].mass), distSq)
        fVec   == mult(rVec, <<fVal, rMag>>)
    IN  [acc EXCEPT ![i] = add(@, mult(fVec, <<Scale, state[i].mass>>)),
                    ![j] = sub(@, mult(fVec, <<Scale, state[j].mass>>))]

\* for (i = 0; i < n; i++) for (j = i + 1; j < n; j++), bodies counted from 1
RECURSIVE PairLoop(_, _, _, _)
PairLoop(state, acc, i, j) ==
    IF i > Len(state) THEN acc
    ELSE IF j > Len(state) THEN PairLoop(state, acc, i + 1, i + 2)
    ELSE PairLoop(state, PairForce(state, acc, i, j), i, j + 1)

getAccelerations(state) ==
    PairLoop(state, [i \in 1 .. Len(state) |-> Vector(0, 0, 0)], 1, 2)

\* One stage state: state.map((s, i) => ({ pos: s.pos.add(v[i].mult(h)),
\*     vel: s.vel.add(a[i].mult(h)), mass: s.mass }))
Stage(state, v, a, h) ==
    [i \in 1 .. Len(state) |->
        [pos |-> add(state[i].pos, mult(v[i], h)),
         vel |-> add(state[i].vel, mult(a[i], h)),
         mass |-> state[i].mass]]

Velocities(state) == [i \in 1 .. Len(state) |-> state[i].vel]

\* const x = v; body: x is bound to the value of v, computed once.
Bind(v, Body(_)) == CHOOSE out \in {Body(x) : x \in {v}} : TRUE

\* k1.add(k2.mult(2)).add(k3.mult(2)).add(k4).mult(dt / 6)
RK4Sum(k1, k2, k3, k4, dt) ==
    mult(add(add(add(k1, mult(k2, <<2, 1>>)), mult(k3, <<2, 1>>)), k4),
         SixthDtScalar(dt))

\* this.bodies.map(b => ({ pos: b.pos.clone(), vel: b.vel.clone(),
\*     mass: b.mass }))
CopyState(bodies) ==
    [i \in 1 .. Len(bodies) |->
        [pos |-> bodies[i].pos, vel |-> bodies[i].vel,
         mass |-> bodies[i].mass]]

\* The final loop with the deltas added to the last stage's position and
\* velocity instead of the body's own.
CommitOnLastStage(bodies, s, a, dt) ==
    [i \in 1 .. Len(bodies) |->
        [bodies[i] EXCEPT
           !.vel = add(s[4][i].vel,
                       RK4Sum(a[1][i], a[2][i], a[3][i], a[4][i], dt)),
           !.pos = add(s[4][i].pos,
                       RK4Sum(s[1][i].vel, s[2][i].vel, s[3][i].vel,
                              s[4][i].vel, dt))]]

\* for (let i = 0; i < this.bodies.length; i++) { const dv = ...; const dx
\* = ...; this.bodies[i].vel = this.bodies[i].vel.add(dv);
\* this.bodies[i].pos = this.bodies[i].pos.add(dx); }
\* s is <<state, s2, s3, s4>> and a is <<a1, a2, a3, a4>>.
Commit(bodies, s, a, dt) ==
    [i \in 1 .. Len(bodies) |->
        [bodies[i] EXCEPT
           !.vel = add(@, RK4Sum(a[1][i], a[2][i], a[3][i], a[4][i], dt)),
           !.pos = add(@, RK4Sum(s[1][i].vel, s[2][i].vel, s[3][i].vel,
                                 s[4][i].vel, dt))]]

\* integrate(dt): the bodies after one RK4 step
integrate(bodies, dt) ==
    Bind(CopyState(bodies), LAMBDA state:
    Bind(getAccelerations(state), LAMBDA a1:
    Bind(Stage(state, Velocities(state), a1, HalfDtScalar(dt)), LAMBDA s2:
    Bind(getAccelerations(s2), LAMBDA a2:
    Bind(Stage(state, Velocities(s2), a2, HalfDtScalar(dt)), LAMBDA s3:
    Bind(getAccelerations(s3), LAMBDA a3:
    Bind(Stage(state, Velocities(s3), a3, DtScalar(dt)), LAMBDA s4:
    Bind(getAccelerations(s4), LAMBDA a4:
        Commit(bodies, <<state, s2, s3, s4>>, <<a1, a2, a3, a4>>,
               dt)))))))))

\* INITIAL_CONFIG
INITIAL_CONFIG ==
    << [pos |-> Vector(Num(-100), 0, 0), vel |-> Vector(0, Num(5), Half),
        mass |-> Num(20)],
       [pos |-> Vector(Num(100), 0, 0), vel |-> Vector(0, Num(-5), -Half),
        mass |-> Num(20)],
       [pos |-> Vector(0, Num(-150), Num(50)), vel |-> Vector(Num(4), 0, 0),
        mass |-> Num(15)] >>

\* loadConfig(config): fresh bodies with the config's positions, velocities
\* and masses (radius and color are rendering hints, left out)
loadConfig(config) ==
    [i \in 1 .. Len(config) |->
        [pos |-> Vector(config[i].pos.x, config[i].pos.y, config[i].pos.z),
         vel |-> Vector(config[i].vel.x, config[i].vel.y, config[i].vel.z),
         mass |-> config[i].mass]]

-----------------------------------------------------------------------------
(* PhysicsEngine.step(): the floating accumulator                           *)

\* new PhysicsEngine(): this.bodies = []; this.dt = 0.15; this.accumulator = 0
NewPhysicsEngine == [bodies |-> <<>>, dt |-> D015, accumulator |-> DZero]

\* while (this.accumulator >= this.fixedDt) { this.integrate(this.fixedDt);
\*     this.accumulator -= this.fixedDt; }
\* run on [engine, n]: n counts the integrate calls. Each iteration's result
\* is a value (next) before the loop goes on.
RECURSIVE DrainLoseResidual(_)
DrainLoseResidual(r) ==
    IF DGeq(r.engine.accumulator, D001)
    THEN CHOOSE out \in {DrainLoseResidual(next) : next \in
             {[engine |-> [r.engine EXCEPT
                             !.bodies = integrate(@, fixedDt),
                             !.accumulator = DSub(@, D001)],
               n |-> r.n + 1]}} : TRUE
    ELSE [r EXCEPT !.engine.accumulator = DZero]

RECURSIVE DrainStopsEarly(_)
DrainStopsEarly(r) ==
    IF DGeq(r.engine.accumulator, DAdd(D001, D001))
    THEN CHOOSE out \in {DrainStopsEarly(next) : next \in
             {[engine |-> [r.engine EXCEPT
                             !.bodies = integrate(@, fixedDt),
                             !.accumulator = DSub(@, D001)],
               n |-> r.n + 1]}} : TRUE
    ELSE r

RECURSIVE Drain(_)
Drain(r) ==
    IF DGeq(r.engine.accumulator, D001)
    THEN CHOOSE out \in {Drain(next) : next \in
             {[engine |-> [r.engine EXCEPT
                             !.bodies = integrate(@, fixedDt),
                             !.accumulator = DSub(@, D001)],
               n |-> r.n + 1]}} : TRUE
    ELSE r

\* step(): this.accumulator += this.dt, then the loop
step(engine) ==
    Drain([engine |-> [engine EXCEPT !.accumulator = DAdd(@, engine.dt)],
           n |-> 0])

\* getTotalState(): the sum of all position coordinates
RECURSIVE SumPositions(_, _)
SumPositions(bodies, i) ==
    IF i > Len(bodies) THEN 0
    ELSE NumAdd(NumAdd(NumAdd(bodies[i].pos.x, bodies[i].pos.y),
                       bodies[i].pos.z),
                SumPositions(bodies, i + 1))

getTotalState(engine) == SumPositions(engine.bodies, 1)

-----------------------------------------------------------------------------
(* PhysicsEngine.step(): the integer microsecond accumulator                *)

\* new PhysicsEngine(): this.bodies = []; this.dt = 0.45;
\* this.accumulatorUs = 0. dt is in tenths of a microsecond.
NewPhysicsEngineUs == [bodies |-> <<>>, dt |-> 4500000, accumulatorUs |-> 0]

-----------------------------------------------------------------------------
(* Integer microsecond accumulator                                          *)

\* this.fixedStepUs = 10000
fixedStepUs == 10000

\* Tenths of a microsecond in one second: the unit of a dt given in seconds.
TenthUsPerSecond == 10 * 1000000

\* Math.round(dt * 1000000): to the nearest microsecond, halves towards
\* +Infinity.
RoundUs(dt) == (dt + 5) \div 10

\* while (this.accumulatorUs >= this.fixedStepUs) { this.stepsTaken++;
\*     this.accumulatorUs -= this.fixedStepUs; }
RECURSIVE DrainUsLoseResidual(_)
DrainUsLoseResidual(sim) ==
    IF sim.accumulatorUs >= fixedStepUs
    THEN DrainUsLoseResidual([sim EXCEPT !.stepsTaken = @ + 1,
                                         !.accumulatorUs = @ - fixedStepUs])
    ELSE [sim EXCEPT !.accumulatorUs = 0]

\* One step counted per call, however many fit into the accumulator
DrainUsCountOnce(sim) ==
    IF sim.accumulatorUs >= fixedStepUs
    THEN [sim EXCEPT !.stepsTaken = @ + 1,
                     !.accumulatorUs = @ % fixedStepUs]
    ELSE sim

RECURSIVE DrainUs(_)
DrainUs(sim) ==
    IF sim.accumulatorUs >= fixedStepUs
    THEN DrainUs([sim EXCEPT !.stepsTaken = @ + 1,
                             !.accumulatorUs = @ - fixedStepUs])
    ELSE sim

\* while (this.accumulatorUs >= this.fixedStepUs) {
\*     this.integrate(this.fixedDt); this.accumulatorUs -= this.fixedStepUs; }
RECURSIVE DrainEngineUs(_)
DrainEngineUs(r) ==
    IF r.engine.accumulatorUs >= fixedStepUs
    THEN CHOOSE out \in {DrainEngineUs(next) : next \in
             {[engine |-> [r.engine EXCEPT
                             !.bodies = integrate(@, fixedDt),
                             !.accumulatorUs = @ - fixedStepUs],
               n |-> r.n + 1]}} : TRUE
    ELSE r

\* step() that returns at once on a negative increment
stepUsNonNegative(engine) ==
    LET dtUs == RoundUs(engine.dt)
    IN  IF dtUs < 0
        THEN [engine |-> engine, n |-> 0]
        ELSE DrainEngineUs([engine |-> [engine EXCEPT
                                          !.accumulatorUs = @ + dtUs],
                            n |-> 0])

\* step(): const dtUs = Math.round(this.dt * 1000000);
\* this.accumulatorUs += dtUs, then the loop
stepUs(engine) ==
    LET dtUs == RoundUs(engine.dt)
    IN  DrainEngineUs([engine |-> [engine EXCEPT !.accumulatorUs = @ + dtUs],
                       n |-> 0])

\* IntegerAccumulatorTest.step(dt)
IntegerStep(sim, dt) ==
    LET dtUs == RoundUs(dt)
    IN  DrainUs([sim EXCEPT !.accumulatorUs = @ + dtUs])

\* new IntegerAccumulatorTest()
NewIntegerAccumulatorTest == [accumulatorUs |-> 0, stepsTaken |-> 0]


\* The references a config object can have, and the mark of an unused one.
Refs == 1 .. 4
Free == <<>>
null == 0

\* The page is not loaded: no config object, no explorer, no call. Object 1
\* is INITIAL_CONFIG once it is.
NoHeap == [r \in Refs |-> Free]
NoApp == [config |-> null, isRunning |-> FALSE, pauseBtn |-> "Pause"]
NoExplorer == [baseConfig |-> null]
NoCall == [pc |-> "idle"]
NoPage == [physics |-> <<>>]
UnusedApp ==
    /\ heap = NoHeap
    /\ app = NoApp
    /\ explorer = NoExplorer
    /\ evalr = NoCall
    /\ page = NoPage
    /\ requested = {}

\* The engines are constructed and not driven.
NoProbe == [pc |-> "none"]
UnusedEngines ==
    /\ sim1 = NewPhysicsEngine
    /\ sim2 = NewPhysicsEngine
    /\ usSim = NewPhysicsEngineUs
    /\ probe = NoProbe
    /\ UnusedApp

\* The target-time script is not running.
NoScript == [pc |-> "none"]

\* What the driving script has fed one accumulator so far: the sum of the
\* rounded increments, whether every increment was a whole number of
\* microseconds, and the one dt used in every call (NoDt before the first
\* call, MixedDt once two calls differed).
NoDt == 0 - 1
MixedDt == 0 - 2
NewFeed == [fedUs |-> 0, whole |-> TRUE, only |-> NoDt]

Fed(feed, dt) ==
    [fedUs |-> feed.fedUs + RoundUs(dt),
     whole |-> feed.whole /\ dt % 10 = 0,
     only  |-> IF feed.only \in {NoDt, dt} THEN dt ELSE MixedDt]

-----------------------------------------------------------------------------
(* debug_verify.js: two accumulators driven by arbitrary increments         *)

\* Increments, in tenths of a microsecond: 0.1 s and 0.3 s (the script's),
\* 0.025 s (leaves half a step of residual), 0.0250004 s (not a whole
\* number of microseconds) and 0.
IntDts == {0, 250000, 250004, 1000000, 3000000}

\* The script's total, 3.0 s, in microseconds.
MaxFedUs == 3000000

\* The longest of the shorter target times, in seconds.
MaxTargetTime == 3

InitInt ==
    /\ slowSim = NewIntegerAccumulatorTest
    /\ fastSim = NewIntegerAccumulatorTest
    /\ harness = [slow |-> NewFeed, fast |-> NewFeed]
    /\ script = NoScript
    /\ UnusedEngines

\* slowSim.step(dt)
SlowStep(dt) ==
    /\ harness.slow.fedUs + RoundUs(dt) <= MaxFedUs
    /\ slowSim' = IntegerStep(slowSim, dt)
    /\ harness' = [harness EXCEPT !.slow = Fed(@, dt)]
    /\ UNCHANGED <<fastSim, script, engineVars, appVars>>

\* fastSim.step(dt)
FastStep(dt) ==
    /\ harness.fast.fedUs + RoundUs(dt) <= MaxFedUs
    /\ fastSim' = IntegerStep(fastSim, dt)
    /\ harness' = [harness EXCEPT !.fast = Fed(@, dt)]
    /\ UNCHANGED <<slowSim, script, engineVars, appVars>>

NextInt ==
    \/ \E dt \in IntDts : SlowStep(dt)
    \/ \E dt \in IntDts : FastStep(dt)

SpecInt == InitInt /\ [][NextInt]_vars

-----------------------------------------------------------------------------
(* The microsecond test: both accumulators driven towards a target time    *)

RECURSIVE GCD(_, _)
GCD(a, b) == IF b = 0 THEN a ELSE GCD(b, a % b)

\* Math.ceil(targetTime / dt), targetTime in whole seconds and dt in tenths
\* of a microsecond; the quotient is reduced first to stay within 32 bits.
Frames(targetTime, dt) ==
    LET g   == GCD(TenthUsPerSecond, dt)
        num == targetTime * (TenthUsPerSecond \div g)
        den == dt \div g
    IN  (num + den - 1) \div den

\* targetTime, slowDt, fastDt: the script's own (10000.0, 0.15, 0.35) and
\* the same two increments, and 0.1 / 0.3, towards shorter targets.
Scenarios ==
    {[targetTime |-> 10000, slowDt |-> 1500000, fastDt |-> 3500000]}
    \cup [targetTime : 1 .. MaxTargetTime,
          slowDt : {1000000, 1500000}, fastDt : {3000000, 3500000}]

InitTarget ==
    /\ slowSim = NewIntegerAccumulatorTest
    /\ fastSim = NewIntegerAccumulatorTest
    /\ harness = [slow |-> NewFeed, fast |-> NewFeed]
    /\ \E sc \in Scenarios :
          script = [pc |-> "slow", i |-> 0,
                    targetTime |-> sc.targetTime,
                    slowDt |-> sc.slowDt, fastDt |-> sc.fastDt,
                    slowFrames |-> Frames(sc.targetTime, sc.slowDt),
                    fastFrames |-> Frames(sc.targetTime, sc.fastDt)]
    /\ UnusedEngines

\* for (let i = 0; i < slowFrames; i++) slowSim.step(slowDt);
SlowLoop ==
    /\ script.pc = "slow"
    /\ IF script.i < script.slowFrames
       THEN /\ slowSim' = IntegerStep(slowSim, script.slowDt)
            /\ script' = [script EXCEPT !.i = @ + 1]
       ELSE /\ script' = [script EXCEPT !.pc = "fast", !.i = 0]
            /\ UNCHANGED slowSim
    /\ UNCHANGED <<fastSim, harness, engineVars, appVars>>

\* for (let i = 0; i < fastFrames; i++) fastSim.step(fastDt);
FastLoop ==
    /\ script.pc = "fast"
    /\ IF script.i < script.fastFrames
       THEN /\ fastSim' = IntegerStep(fastSim, script.fastDt)
            /\ script' = [script EXCEPT !.i = @ + 1]
       ELSE /\ script' = [script EXCEPT !.pc = "done"]
            /\ UNCHANGED fastSim
    /\ UNCHANGED <<slowSim, harness, engineVars, appVars>>

NextTarget == SlowLoop \/ FastLoop

SpecTarget == InitTarget /\ [][NextTarget]_vars

-----------------------------------------------------------------------------
(* verify_consistency.js: the same 15.0 s at two frame rates                *)

UnusedAccumulators ==
    /\ slowSim = NewIntegerAccumulatorTest
    /\ fastSim = NewIntegerAccumulatorTest
    /\ harness = [slow |-> NewFeed, fast |-> NewFeed]
    /\ script = NoScript

\* for (let i = 0; i < 100; i++) and for (let i = 0; i < 50; i++)
Sim1Frames == 100
Sim2Frames == 50

\* sim.loadConfig(INITIAL_CONFIG); sim1.dt = 0.15; sim2.dt = 0.30
InitConsistency ==
    /\ sim1 = [NewPhysicsEngine EXCEPT !.bodies = loadConfig(INITIAL_CONFIG),
                                       !.dt = D015]
    /\ sim2 = [NewPhysicsEngine EXCEPT !.bodies = loadConfig(INITIAL_CONFIG),
                                       !.dt = D030]
    /\ usSim = NewPhysicsEngineUs
    /\ probe = [pc |-> "sim1", i |-> 0, integrations1 |-> 0,
                integrations2 |-> 0]
    /\ UnusedAccumulators
    /\ UnusedApp

\* for (let i = 0; i < 100; i++) sim1.step();
Sim1Loop ==
    /\ probe.pc = "sim1"
    /\ IF probe.i < Sim1Frames
       THEN \E r \in {step(sim1)} :
                /\ sim1' = r.engine
                /\ probe' = [probe EXCEPT !.i = @ + 1,
                                          !.integrations1 = @ + r.n]
       ELSE /\ probe' = [probe EXCEPT !.pc = "sim2", !.i = 0]
            /\ UNCHANGED sim1
    /\ UNCHANGED <<sim2, usSim, accVars, appVars>>

\* for (let i = 0; i < 50; i++) sim2.step();
Sim2Loop ==
    /\ probe.pc = "sim2"
    /\ IF probe.i < Sim2Frames
       THEN \E r \in {step(sim2)} :
                /\ sim2' = r.engine
                /\ probe' = [probe EXCEPT !.i = @ + 1,
                                          !.integrations2 = @ + r.n]
       ELSE /\ probe' = [probe EXCEPT !.pc = "done"]
            /\ UNCHANGED sim2
    /\ UNCHANGED <<sim1, usSim, accVars, appVars>>

NextConsistency == Sim1Loop \/ Sim2Loop

SpecConsistency == InitConsistency /\ [][NextConsistency]_vars

-----------------------------------------------------------------------------
(* Both accumulators under arbitrary non-negative increments                *)

\* The values the driver may give this.dt before a step() call.
FloatDts == {DZero, D0004, D0025, D005, D015}
UsDts == {0, 40000, 250004, 1500000}
TestDts == {40000, 250004, 1000000}

\* The number of step() calls made on each engine.
MaxCalls == 3

InitAccum ==
    /\ sim1 = NewPhysicsEngine
    /\ sim2 = NewPhysicsEngine
    /\ usSim = NewPhysicsEngineUs
    /\ probe = [pc |-> "accum", calls |-> 0, callsUs |-> 0, callsTest |-> 0,
                last |-> 0, lastUs |-> 0, from |-> <<DZero, DZero>>,
                fromUs |-> 0]
    /\ slowSim = NewIntegerAccumulatorTest
    /\ fastSim = NewIntegerAccumulatorTest
    /\ harness = [slow |-> NewFeed, fast |-> NewFeed]
    /\ script = NoScript
    /\ UnusedApp

\* physics.dt = dt; physics.step() on the floating accumulator; probe
\* keeps the residual and the increment of the last call and the number of
\* integrate calls it made.
FloatFrame(dt) ==
    /\ probe.calls < MaxCalls
    /\ \E r \in {step([sim1 EXCEPT !.dt = dt])} :
           /\ sim1' = r.engine
           /\ probe' = [probe EXCEPT !.calls = @ + 1, !.last = r.n,
                                     !.from = <<sim1.accumulator, dt>>]
    /\ UNCHANGED <<sim2, usSim, accVars, appVars>>

\* physics.dt = dt; physics.step() on the integer accumulator
UsFrame(dt) ==
    /\ probe.callsUs < MaxCalls
    /\ \E r \in {stepUs([usSim EXCEPT !.dt = dt])} :
           /\ usSim' = r.engine
           /\ probe' = [probe EXCEPT !.callsUs = @ + 1, !.lastUs = r.n,
                                     !.fromUs = usSim.accumulatorUs
                                                   + RoundUs(dt)]
    /\ UNCHANGED <<sim1, sim2, accVars, appVars>>

\* slowSim.step(dt) on the IntegerAccumulatorTest
TestFrame(dt) ==
    /\ probe.callsTest < MaxCalls
    /\ slowSim' = IntegerStep(slowSim, dt)
    /\ probe' = [probe EXCEPT !.callsTest = @ + 1]
    /\ UNCHANGED <<fastSim, harness, script, sim1, sim2, usSim, appVars>>

NextAccum ==
    \/ \E dt \in FloatDts : FloatFrame(dt)
    \/ \E dt \in UsDts : UsFrame(dt)
    \/ \E dt \in TestDts : TestFrame(dt)

SpecAccum == InitAccum /\ [][NextAccum]_vars

-----------------------------------------------------------------------------
(* The integer accumulators driven by increments of either sign             *)

\* Increments in tenths of a microsecond: -0.025 s, -0.004 s, -0.0000025 s
\* (half a microsecond below zero), 0.004 s and 0.0250004 s.
SignedDts == {-250000, -40000, -25, 40000, 250004}

\* The number of step() calls made on each accumulator.
MaxSignedCalls == 3

InitSigned ==
    /\ usSim = NewPhysicsEngineUs
    /\ slowSim = NewIntegerAccumulatorTest
    /\ probe = [pc |-> "signed", callsUs |-> 0, callsTest |-> 0,
                dtUs |-> 0, fromUs |-> 0, lastUs |-> 0,
                dtTest |-> 0, fromTest |-> 0, lastTest |-> 0,
                sumUs |-> 0, stepsUs |-> 0, sumTest |-> 0]
    /\ sim1 = NewPhysicsEngine
    /\ sim2 = NewPhysicsEngine
    /\ fastSim = NewIntegerAccumulatorTest
    /\ harness = [slow |-> NewFeed, fast |-> NewFeed]
    /\ script = NoScript
    /\ UnusedApp

\* physics.dt = dt; physics.step() on the integer accumulator; probe keeps
\* the increment, the accumulator before the call and the number of
\* integrate calls made, and over all calls the sum of the rounded
\* increments and the number of integrate calls.
SignedUsFrame(dt) ==
    /\ probe.callsUs < MaxSignedCalls
    /\ \E r \in {stepUs([usSim EXCEPT !.dt = dt])} :
           /\ usSim' = r.engine
           /\ probe' = [probe EXCEPT !.callsUs = @ + 1, !.dtUs = dt,
                                     !.fromUs = usSim.accumulatorUs,
                                     !.lastUs = r.n,
                                     !.sumUs = @ + RoundUs(dt),
                                     !.stepsUs = @ + r.n]
    /\ UNCHANGED <<sim1, sim2, accVars, appVars>>

\* slowSim.step(dt) on the IntegerAccumulatorTest
SignedTestFrame(dt) ==
    /\ probe.callsTest < MaxSignedCalls
    /\ slowSim' = IntegerStep(slowSim, dt)
    /\ probe' = [probe EXCEPT !.callsTest = @ + 1, !.dtTest = dt,
                              !.fromTest = slowSim.accumulatorUs,
                              !.lastTest = slowSim'.stepsTaken
                                               - slowSim.stepsTaken,
                              !.sumTest = @ + RoundUs(dt)]
    /\ UNCHANGED <<fastSim, harness, script, sim1, sim2, usSim, appVars>>

NextSigned ==
    \/ \E dt \in SignedDts : SignedUsFrame(dt)
    \/ \E dt \in SignedDts : SignedTestFrame(dt)

SpecSigned == InitSigned /\ [][NextSigned]_vars

-----------------------------------------------------------------------------
(* class HeatmapExplorer: the stability evaluator                           *)

\* Math.sqrt(a) of a Number
NumSqrt(a) == IF a = NaN \/ a < 0 THEN NaN ELSE ISqrt(a * Scale)

\* const steps = 1000, dt = 0.2 (in milliseconds), esc = 6000 * 6000
steps == 1000
simDt == 200
esc == Num(6000 * 6000)

\* The pull with d2 = dx * dx + dy * dy + dz * dz, without the + 25.
PullUnsoftened(bodies, a, b) ==
    Bind(NumSub(bodies[b].pos.x, bodies[a].pos.x), LAMBDA dx:
    Bind(NumSub(bodies[b].pos.y, bodies[a].pos.y), LAMBDA dy:
    Bind(NumSub(bodies[b].pos.z, bodies[a].pos.z), LAMBDA dz:
    Bind(NumAdd(NumAdd(NumMul(dx, dx), NumMul(dy, dy)), NumMul(dz, dz)),
         LAMBDA d2:
    Bind(NumSqrt(d2), LAMBDA d:
    Bind(NumDiv(NumMul(Num(G), bodies[b].mass), d2), LAMBDA f:
        Vector(NumScale(f, <<dx, d>>), NumScale(f, <<dy, d>>),
               NumScale(f, <<dz, d>>))))))))

\* The body of the inner loop for the pair a, b: the pull of b on a,
\* (f * (dx / d), f * (dy / d), f * (dz / d)).
Pull(bodies, a, b) ==
    Bind(NumSub(bodies[b].pos.x, bodies[a].pos.x), LAMBDA dx:
    Bind(NumSub(bodies[b].pos.y, bodies[a].pos.y), LAMBDA dy:
    Bind(NumSub(bodies[b].pos.z, bodies[a].pos.z), LAMBDA dz:
    Bind(NumAdd(NumAdd(NumAdd(NumMul(dx, dx), NumMul(dy, dy)),
                       NumMul(dz, dz)), Num(25)), LAMBDA d2:
    Bind(NumSqrt(d2), LAMBDA d:
    Bind(NumDiv(NumMul(Num(G), bodies[b].mass), d2), LAMBDA f:
        Vector(NumScale(f, <<dx, d>>), NumScale(f, <<dy, d>>),
               NumScale(f, <<dz, d>>))))))))

\* for (let b = 0; b < 3; b++) { if (a === b) continue; ... }, bodies
\* counted from 1; acc is (ax, ay, az).
RECURSIVE PullLoop(_, _, _, _)
PullLoop(bodies, a, b, acc) ==
    IF b > 3 THEN acc
    ELSE IF a = b THEN PullLoop(bodies, a, b + 1, acc)
    ELSE Bind(add(acc, Pull(bodies, a, b)), LAMBDA next:
             PullLoop(bodies, a, b + 1, next))

\* for (let a = 0; a < 3; a++) { ...; bodies[a].vel.x += ax * dt; ... }
RECURSIVE KickLoop(_, _)
KickLoop(bodies, a) ==
    IF a > 3 THEN bodies
    ELSE Bind(mult(PullLoop(bodies, a, 1, Vector(0, 0, 0)), DtScalar(simDt)),
              LAMBDA dv:
         Bind([bodies EXCEPT ![a].vel = add(@, dv)], LAMBDA next:
             KickLoop(next, a + 1)))

\* pos.x ** 2 + pos.y ** 2 + pos.z ** 2
SquaredDistance(pos) ==
    NumAdd(NumAdd(NumMul(pos.x, pos.x), NumMul(pos.y, pos.y)),
           NumMul(pos.z, pos.z))

\* for (let a = 0; a < 3; a++) { bodies[a].pos.x += bodies[a].vel.x * dt;
\*     ...; maxD2 = Math.max(maxD2, ...); }  run on [bodies, maxD2]
RECURSIVE DriftLoop(_, _)
DriftLoop(r, a) ==
    IF a > 3 THEN r
    ELSE Bind(add(r.bodies[a].pos, mult(r.bodies[a].vel, DtScalar(simDt))),
              LAMBDA pos:
         Bind([bodies |-> [r.bodies EXCEPT ![a].pos = pos],
               maxD2  |-> NumMax(r.maxD2, SquaredDistance(pos))],
              LAMBDA next: DriftLoop(next, a + 1)))

\* One pass of the body of for (let i = 0; i < steps; i++), up to the
\* escape check: the bodies after it and maxD2.
SimStep(bodies) ==
    Bind(KickLoop(bodies, 1), LAMBDA kicked:
        DriftLoop([bodies |-> kicked, maxD2 |-> 0], 1))

\* applyParam(bodies, type, val); p is type.split('_'), the parts of the
\* name, and parseInt reads the index part.
parseInt(digits) ==
    CHOOSE n \in 0 .. 9 : digits = <<"0", "1", "2", "3", "4", "5", "6", "7",
                                     "8", "9">>[n + 1]

\* The parameter added to the body after the named one.
applyParamNextBody(bodies, p, val) ==
    IF p[1] = "mass"
    THEN [bodies EXCEPT ![(parseInt(p[2]) % 3) + 1].mass = NumAdd(@, val)]
    ELSE [bodies EXCEPT ![(parseInt(p[3]) % 3) + 1][p[1]][p[2]] =
                            NumAdd(@, val)]

applyParam(bodies, p, val) ==
    IF p[1] = "mass"
    THEN [bodies EXCEPT ![parseInt(p[2])].mass = NumAdd(@, val)]
    ELSE [bodies EXCEPT ![parseInt(p[3])][p[1]][p[2]] = NumAdd(@, val)]

\* const INITIAL_CONFIG of the application, with its colors and radii
APP_CONFIG ==
    << [pos |-> Vector(Num(-100), 0, 0), vel |-> Vector(0, Num(5), Half),
        mass |-> Num(20), color |-> "0x00f0ff", radius |-> Num(6)],
       [pos |-> Vector(Num(100), 0, 0), vel |-> Vector(0, Num(-5), -Half),
        mass |-> Num(20), color |-> "0x7000ff", radius |-> Num(6)],
       [pos |-> Vector(0, Num(-150), Num(50)), vel |-> Vector(Num(4), 0, 0),
        mass |-> Num(15), color |-> "0xff0055", radius |-> Num(5)] >>

-----------------------------------------------------------------------------
(* Config objects and JSON.parse(JSON.stringify(...))                       *)

\* The least unused reference.
Alloc(h) ==
    CHOOSE r \in Refs : h[r] = Free /\ \A q \in Refs : q < r => h[q] # Free

\* A number through JSON: NaN is written as null, and null is read by
\* every later sum, difference and product as 0.
JSONNumber(a) == IF a = NaN THEN 0 ELSE a

JSONValue(bodies) ==
    [i \in 1 .. Len(bodies) |->
        [pos    |-> Vector(JSONNumber(bodies[i].pos.x),
                           JSONNumber(bodies[i].pos.y),
                           JSONNumber(bodies[i].pos.z)),
         vel    |-> Vector(JSONNumber(bodies[i].vel.x),
                           JSONNumber(bodies[i].vel.y),
                           JSONNumber(bodies[i].vel.z)),
         mass   |-> JSONNumber(bodies[i].mass),
         color  |-> bodies[i].color,
         radius |-> JSONNumber(bodies[i].radius)]]

\* The same reference instead of a copy.
JSONCloneAlias(h, r) == [heap |-> h, ref |-> r]

\* JSON.parse(JSON.stringify(object r)): a new object with a copy of the
\* content; the heap with it, and its reference.
JSONClone(h, r) ==
    [heap |-> [h EXCEPT ![Alloc(h)] = JSONValue(h[r])], ref |-> Alloc(h)]

\* The objects still referenced; the others are collected.
Collect(h, live) == [r \in Refs |-> IF r \in live THEN h[r] ELSE Free]

-----------------------------------------------------------------------------
(* HeatmapExplorer.simStability                                             *)

\* new HeatmapExplorer(...); zoom is an exact ratio <<num, den>>;
\* lastMouse is the mouse position in canvas widths and heights, counted
\* from where the button went down;
\* animationFrame is the handle of the last requested frame; progress is
\* the width of the progress bar in percent, as a ratio; labels tells
\* whether the labels are drawn on the canvas; hidden is the 'hidden' class
\* of the overlay.
NewExplorer ==
    [res |-> 200, centerX |-> 0, centerY |-> 0, zoom |-> <<1, 1>>,
     baseRange |-> Num(8),
     xAxis |-> <<"vel", "x", "3">>, yAxis |-> <<"vel", "y", "3">>,
     isDragging |-> FALSE, lastMouse |-> <<0, 0>>, baseConfig |-> null,
     animationFrame |-> null, progress |-> <<0, 1>>, labels |-> FALSE,
     hidden |-> TRUE]

\* const range = this.baseRange / this.zoom
Range(ex) == NumScale(ex.baseRange, <<ex.zoom[2], ex.zoom[1]>>)

\* this.center + ((grid / this.res) - 0.5) * 2 * range
CellValue(center, grid, res, range) ==
    NumAdd(center, NumScale(range, <<2 * grid - res, res>>))

\* maxD2 > esc
Escaped(maxD2) == NumGt(maxD2, esc)

\* return (i + 1) / steps
ScoreOneBased(i) == <<i + 1, steps>>

\* return i / steps, as the ratio <<i, steps>>
Score(i) == <<i, steps>>

\* return 0.5
HalfScore == <<1, 2>>

\* return 1.0
FullScore == <<1, 1>>

\* What is kept of the calls: the values of the cell, the base config and
\* the live engine as the call found them, the bodies it started from and
\* those before and after its last step, the steps it executed and the
\* first one after which the escape check succeeded (0: none); the content
\* of the config handed to generateMap; the live frames and the clicks, the
\* frames of js/main.js and the step sizes handed to the RK4 step of a live
\* simulation; the cells <<x, y>> evaluated since the last generateMap, in
\* the order of the calls; the wheel events and the mouse moves of drags;
\* the click events that ended a drag.
EvalProbe(shown) ==
    [pc |-> "eval", valX |-> 0, valY |-> 0, base |-> shown, live |-> sim1,
     start |-> shown, before |-> shown, after |-> shown,
     executed |-> 0, escapedAt |-> 0, shown |-> shown,
     frames |-> 0, clicks |-> 0, pageFrames |-> 0, dts |-> {},
     cells |-> <<>>, wheels |-> 0, moves |-> 0, dragClicks |-> 0]

\* simStability(gridX, gridY) up to its loop: the clone with both
\* parameters applied. What the call found is kept in probe: the base
\* config and the live engine as they were, the bodies it started from,
\* and in cells the calls made since the last generateMap.
SimStabilityStart(gridX, gridY, cells) ==
    /\ evalr.pc # "loop"
    /\ explorer.baseConfig # null
    /\ \E c \in {JSONClone(heap, explorer.baseConfig)},
          valX \in {CellValue(explorer.centerX, gridX, explorer.res,
                             Range(explorer))},
          valY \in {CellValue(explorer.centerY, gridY, explorer.res,
                             Range(explorer))} :
          \E bodies \in {applyParam(applyParam(c.heap[c.ref],
                                               explorer.xAxis, valX),
                                    explorer.yAxis, valY)} :
             /\ heap' = [c.heap EXCEPT ![c.ref] = bodies]
             /\ evalr' = [pc |-> "loop", bodies |-> c.ref, i |-> 0,
                          gridX |-> gridX, gridY |-> gridY]
             /\ probe' = [probe EXCEPT
                            !.valX = valX, !.valY = valY,
                            !.base = heap[explorer.baseConfig],
                            !.live = sim1, !.start = bodies,
                            !.before = bodies, !.after = bodies,
                            !.executed = 0, !.escapedAt = 0,
                            !.cells = cells]
    /\ UNCHANGED <<accVars, sim1, sim2, usSim, app, explorer, page>>

\* simStability(gridX, gridY) called on its own
SimStabilityCall(gridX, gridY) ==
    /\ SimStabilityStart(gridX, gridY, probe.cells)
    /\ UNCHANGED requested

\* One pass of for (let i = 0; i < steps; i++) { ...;
\* if (maxD2 > esc) return i / steps; }, or return 1.0 after the last.
\* The loop runs to its return before any other handler runs.
SimStabilityLoop ==
    /\ evalr.pc = "loop"
    /\ IF evalr.i < steps
       THEN \E r \in {SimStep(heap[evalr.bodies])} :
              /\ probe' = [probe EXCEPT
                             !.before = heap[evalr.bodies],
                             !.after = r.bodies,
                             !.executed = @ + 1,
                             !.escapedAt = IF @ = 0 /\ Escaped(r.maxD2)
                                           THEN probe.executed + 1 ELSE @]
              /\ IF Escaped(r.maxD2)
                 THEN /\ evalr' = [pc |-> "returned",
                                   result |-> Score(evalr.i),
                                   gridX |-> evalr.gridX,
                                   gridY |-> evalr.gridY]
                      /\ heap' = [heap EXCEPT ![evalr.bodies] = Free]
                 ELSE /\ evalr' = [evalr EXCEPT !.i = @ + 1]
                      /\ heap' = [heap EXCEPT ![evalr.bodies] = r.bodies]
       ELSE /\ evalr' = [pc |-> "returned", result |-> FullScore,
                         gridX |-> evalr.gridX, gridY |-> evalr.gridY]
            /\ heap' = [heap EXCEPT ![evalr.bodies] = Free]
            /\ UNCHANGED probe
    /\ UNCHANGED <<accVars, sim1, sim2, usSim, app, explorer, page, requested>>

-----------------------------------------------------------------------------
(* The evaluator called on cells of maps the user can have on screen        *)

\* Zoom after no wheel event, and (to the resolution of the model) after 52
\* and 66 wheel-downs of 0.9 each: ranges 8, 1920 and 8376.
EvalZooms == {<<1, 1>>, <<1, 240>>, <<1, 1047>>}

\* The selected parameters: the constructor's, and two other selections.
EvalAxes ==
    { <<<<"vel", "x", "3">>, <<"vel", "y", "3">>>>,
      <<<<"mass", "1">>, <<"pos", "x", "2">>>>,
      <<<<"pos", "z", "3">>, <<"mass", "2">>>> }

\* Cells of the 200 x 200 grid: first, middle and last of a row or column.
EvalGrid == {0, 100, 199}

\* init(), explorerBtn clicked, then parameter and wheel events.
InitEvaluator ==
    /\ heap = [NoHeap EXCEPT ![1] = APP_CONFIG, ![2] = JSONValue(APP_CONFIG)]
    /\ app = [config |-> 2, isRunning |-> FALSE, pauseBtn |-> "Pause"]
    /\ sim1 = [NewPhysicsEngine EXCEPT !.bodies = loadConfig(heap[2])]
    /\ \E z \in EvalZooms, ax \in EvalAxes :
          explorer = [NewExplorer EXCEPT !.baseConfig = 2, !.zoom = z,
                                         !.xAxis = ax[1], !.yAxis = ax[2],
                                         !.hidden = FALSE]
    /\ evalr = NoCall
    /\ page = NoPage
    /\ requested = {}
    /\ sim2 = NewPhysicsEngine
    /\ usSim = NewPhysicsEngineUs
    /\ probe = EvalProbe(heap[2])
    /\ UnusedAccumulators

NextEvaluator ==
    \/ \E gridX \in EvalGrid, gridY \in EvalGrid :
          SimStabilityCall(gridX, gridY)
    \/ SimStabilityLoop

SpecEvaluator == InitEvaluator /\ [][NextEvaluator]_vars

-----------------------------------------------------------------------------
(* applyParam on the evaluator's clone                                      *)

\* The recognised parameter names, split at '_'.
Names ==
    {<<"mass", n>> : n \in {"1", "2", "3"}}
    \cup {<<kind, axis, n>> : kind \in {"pos", "vel"},
                             axis \in {"x", "y", "z"}, n \in {"1", "2", "3"}}

\* Cell values: -8 and 7.92 (the corners of the first map), 0.5 and -2000.
ParamVals == {Num(-8), Num(8) - 1, Half, Num(-2000)}

\* simStability up to const bodies = JSON.parse(JSON.stringify(baseConfig))
InitParam ==
    /\ heap = [NoHeap EXCEPT ![1] = APP_CONFIG,
                             ![2] = JSONValue(APP_CONFIG),
                             ![3] = JSONValue(APP_CONFIG)]
    /\ app = [config |-> 2, isRunning |-> FALSE, pauseBtn |-> "Pause"]
    /\ sim1 = [NewPhysicsEngine EXCEPT !.bodies = loadConfig(heap[2])]
    /\ explorer = [NewExplorer EXCEPT !.baseConfig = 2, !.hidden = FALSE]
    /\ evalr = [pc |-> "params", bodies |-> 3, applied |-> 0]
    /\ page = NoPage
    /\ requested = {}
    /\ sim2 = NewPhysicsEngine
    /\ usSim = NewPhysicsEngineUs
    /\ probe = [pc |-> "param", before |-> heap[3], type |-> <<>>, val |-> 0]
    /\ UnusedAccumulators

\* this.applyParam(bodies, type, val): the first call, then the second
ApplyParam(type, val) ==
    /\ evalr.pc = "params"
    /\ evalr.applied < 2
    /\ heap' = [heap EXCEPT ![evalr.bodies] = applyParam(@, type, val)]
    /\ evalr' = [evalr EXCEPT !.applied = @ + 1]
    /\ probe' = [probe EXCEPT !.before = heap[evalr.bodies],
                              !.type = type, !.val = val]
    /\ UNCHANGED <<accVars, sim1, sim2, usSim, app, explorer, page, requested>>

NextParam == \E type \in Names, val \in ParamVals : ApplyParam(type, val)

SpecParam == InitParam /\ [][NextParam]_vars

-----------------------------------------------------------------------------
(* The application: init(), its handlers, the explorer's sweep and the loop *)

\* The view of the explorer and the speed are left as they are: the
\* explorer's selects, wheel and drag handlers are not part of this
\* specification, and the slider is part of the next one.
\* The sweep covers AppRes x AppRes cells; the loop runs at most MaxFrames
\* frames with the simulation running, and the canvas is clicked at most
\* MaxClicks times.
AppRes == 3
MaxFrames == 1
MaxClicks == 1

\* Where the canvas is clicked: (e.clientX - rect.left) / this.canvas.width
\* and the same for y, as ratios.
AppClicks == {<<<<5, 6>>, <<5, 6>>>>, <<<<1, 2>>, <<5, 6>>>>}

\* The zoom after 74 wheel-downs of 0.9 each (to the resolution of the
\* model): range 19456, so that every cell of the first maps is decided
\* within a few steps of the evaluator.
AppZoom == <<1, 2432>>

\* physics.dt after the slider is set to 1 and to 2:
\* parseFloat(e.target.value) * 0.15
SliderDts == {D015, D030}

\* No handler is running: the sweep's frame runs to its end before any
\* other handler does.
Idle == evalr.pc = "idle"

\* const reset = () => { physics.loadConfig(config); ... }
reset(engine, h, config) == [engine EXCEPT !.bodies = loadConfig(h[config])]

\* requestAnimationFrame(step) for the step whose closure holds x: the
\* handle is the least one not in use.
requestAnimationFrame(req, x) ==
    LET id == CHOOSE n \in 1 .. Cardinality(req) + 1 :
                  /\ \A cb \in req : cb.id # n
                  /\ \A k \in 1 .. n - 1 : \E cb \in req : cb.id = k
    IN  [id |-> id, requested |-> req \cup {[id |-> id, x |-> x]}]

\* A cancelAnimationFrame that leaves the frame requested
cancelAnimationFrameIgnored(req, handle) == req

\* cancelAnimationFrame(handle)
cancelAnimationFrame(req, handle) == {cb \in req : cb.id # handle}

\* generateMap(baseConfig): the frame of this.animationFrame is cancelled,
\* the canvas is filled, and the first frame of a new sweep, whose closure
\* has x = 0, is requested.
generateMap(ex, req, baseConfig) ==
    IF baseConfig = null
    THEN [explorer |-> ex, requested |-> req]
    ELSE LET kept == IF ex.animationFrame # null
                     THEN cancelAnimationFrame(req, ex.animationFrame)
                     ELSE req
             r == requestAnimationFrame(kept, 0)
         IN  [explorer |-> [ex EXCEPT !.baseConfig = baseConfig,
                                      !.animationFrame = r.id,
                                      !.labels = FALSE],
              requested |-> r.requested]

\* An x that skips a column
NextColumnSkipping(x) == x + 2

\* x++
NextColumn(x) == x + 1

\* init() up to loop(), and wheel events on the explorer's canvas: without
\* a base config generateMap returns at once and only the zoom changes.
\* The pause button starts with the text 'Pause'.
AppLoaded ==
    /\ \E c \in {JSONClone([NoHeap EXCEPT ![1] = APP_CONFIG], 1)} :
          /\ heap = c.heap
          /\ app = [config |-> c.ref, isRunning |-> TRUE,
                    pauseBtn |-> "Pause"]
          /\ sim1 = reset(NewPhysicsEngine, c.heap, c.ref)
          /\ probe = [EvalProbe(c.heap[c.ref]) EXCEPT
                         !.live = reset(NewPhysicsEngine, c.heap, c.ref)]
    /\ explorer = [NewExplorer EXCEPT !.res = AppRes, !.zoom = AppZoom]
    /\ requested = {}
    /\ evalr = NoCall
    /\ sim2 = NewPhysicsEngine
    /\ usSim = NewPhysicsEngineUs
    /\ UnusedAccumulators

InitApp == AppLoaded /\ page = NoPage

\* function loop() { if (isRunning) { physics.step(); ... } ... }
\* probe.dts collects the step handed to integrate, when it was called.
Loop ==
    /\ Idle
    /\ app.isRunning
    /\ probe.frames < MaxFrames
    /\ \E r \in {step(sim1)} :
          /\ sim1' = r.engine
          /\ probe' = [probe EXCEPT
                         !.frames = @ + 1,
                         !.dts = IF r.n > 0 THEN @ \cup {fixedDt} ELSE @]
    /\ UNCHANGED <<accVars, sim2, usSim, appVars>>

\* timeStep 'input'
TimeStep(dt) ==
    /\ Idle
    /\ sim1' = [sim1 EXCEPT !.dt = dt]
    /\ UNCHANGED <<accVars, sim2, usSim, probe, appVars>>

\* isRunning ? 'Pause' : 'Resume'
innerText(isRunning) == IF isRunning THEN "Pause" ELSE "Resume"

\* pauseBtn 'click'
PauseBtn ==
    /\ Idle
    /\ app' = [app EXCEPT !.isRunning = ~@,
                          !.pauseBtn = innerText(~app.isRunning)]
    /\ UNCHANGED <<accVars, engineVars, heap, explorer, evalr, page,
                   requested>>

\* resetBtn 'click'
ResetBtn ==
    /\ Idle
    /\ \E c \in {JSONClone(heap, 1)} :
          /\ heap' = Collect(c.heap, {1, c.ref, explorer.baseConfig})
          /\ app' = [app EXCEPT !.config = c.ref]
          /\ sim1' = reset(sim1, c.heap, c.ref)
    /\ UNCHANGED <<accVars, sim2, usSim, probe, explorer, evalr, page,
                   requested>>

\* explorerBtn 'click'
ExplorerBtn ==
    /\ Idle
    /\ \E g \in {generateMap(explorer, requested, app.config)} :
          /\ explorer' = [g.explorer EXCEPT !.hidden = FALSE]
          /\ requested' = g.requested
    /\ app' = [app EXCEPT !.isRunning = FALSE]
    /\ heap' = Collect(heap, {1, app.config})
    /\ probe' = [probe EXCEPT !.shown = heap[app.config], !.cells = <<>>]
    /\ UNCHANGED <<accVars, sim1, sim2, usSim, evalr, page>>

\* closeExplorerBtn 'click'
CloseExplorerBtn ==
    /\ Idle
    /\ explorer' = [explorer EXCEPT !.hidden = TRUE]
    /\ app' = [app EXCEPT !.isRunning = TRUE]
    /\ UNCHANGED <<accVars, engineVars, heap, evalr, page, requested>>

\* onClick(e) on the explorer ex, for a click at the ratios at[1] of the
\* width and at[2] of the height, and in it onSelectConfig(cfg), which is
\* (newCfg) => { config = newCfg; reset(); isRunning = true; }
onClick(ex, at) ==
    /\ \E c \in {JSONClone(heap, ex.baseConfig)},
          vx \in {CellValue(ex.centerX, at[1][1], at[1][2], Range(ex))},
          vy \in {CellValue(ex.centerY, at[2][1], at[2][2], Range(ex))} :
          \E cfg \in {[c.heap EXCEPT ![c.ref] =
                          applyParam(applyParam(@, ex.xAxis, vx),
                                     ex.yAxis, vy)]} :
             /\ heap' = Collect(cfg, {1, c.ref, ex.baseConfig})
             /\ app' = [app EXCEPT !.config = c.ref, !.isRunning = TRUE]
             /\ sim1' = reset(sim1, cfg, c.ref)
    /\ explorer' = [ex EXCEPT !.hidden = TRUE]
    /\ UNCHANGED <<accVars, sim2, usSim, evalr, page>>

\* canvas 'click': (e) => { if (!this.isDragging) this.onClick(e); }
\* Without a base config the clone of null has no bodies and the handler
\* throws before it changes anything.
CanvasClick(at) ==
    /\ Idle
    /\ ~explorer.isDragging
    /\ explorer.baseConfig # null
    /\ probe.clicks < MaxClicks
    /\ onClick(explorer, at)
    /\ probe' = [probe EXCEPT !.clicks = @ + 1]
    /\ UNCHANGED requested

\* A requested frame runs: const step = () => { if (x >= this.res) {
\* this.progressBar.style.width = '100%'; this.drawLabels(); return; }
\* for (let y = 0; ...) { const stability = this.simStability(x, y); ...,
\* up to the loop of the first call.
SweepFrame ==
    /\ Idle
    /\ \E cb \in requested :
          /\ requested' = requested \ {cb}
          /\ IF cb.x >= explorer.res
             THEN /\ explorer' = [explorer EXCEPT !.progress = <<100, 1>>,
                                                  !.labels = TRUE]
                  /\ UNCHANGED <<accVars, engineVars, heap, app, evalr, page>>
             ELSE SimStabilityStart(cb.x, 0, Append(probe.cells, <<cb.x, 0>>))

\* After a call returned: this.drawPixel(x, y, stability) and the next pass
\* of for (let y = 0; y < this.res; y++), or after the last
\* x++; this.progressBar.style.width = `${(x / this.res) * 100}%`;
\* this.animationFrame = requestAnimationFrame(step)
SweepNext ==
    /\ evalr.pc = "returned"
    /\ IF evalr.gridY + 1 < explorer.res
       THEN /\ SimStabilityStart(evalr.gridX, evalr.gridY + 1,
                                 Append(probe.cells,
                                        <<evalr.gridX, evalr.gridY + 1>>))
            /\ UNCHANGED requested
       ELSE \E r \in {requestAnimationFrame(requested,
                                            NextColumn(evalr.gridX))} :
              /\ explorer' = [explorer EXCEPT
                                 !.animationFrame = r.id,
                                 !.progress = <<100 * NextColumn(evalr.gridX),
                                                explorer.res>>]
              /\ requested' = r.requested
              /\ evalr' = NoCall
              /\ UNCHANGED <<accVars, engineVars, heap, app, page>>

NextApp ==
    \/ Loop
    \/ PauseBtn
    \/ ResetBtn
    \/ ExplorerBtn
    \/ CloseExplorerBtn
    \/ \E at \in AppClicks : CanvasClick(at)
    \/ SweepFrame
    \/ SweepNext
    \/ SimStabilityLoop

SpecApp == InitApp /\ [][NextApp]_vars

-----------------------------------------------------------------------------
(* The drivers of a live simulation: loop() and js/main.js's animate()      *)

\* const subSteps = 4
subSteps == 4

\* The values the slider of js/main.js is set to: 0.4, 1 and 2.
PageSpeeds == {<<2, 5>>, <<1, 1>>, <<2, 1>>}

\* const dt = (simulationSpeed * 0.1) / subSteps, in ms: 10, 25 and 50 for
\* the speeds above.
SubStepDt(simulationSpeed) ==
    (simulationSpeed[1] * 100) \div (simulationSpeed[2] * subSteps)

\* js/physics.js PhysicsEngine.step(dt): one RK4 step of dt, statement for
\* statement the integrate(dt) of the application's engine.
PhysicsStep(bodies, dt) == integrate(bodies, dt)

\* for (let i = 0; i < subSteps; i++) { physics.step(dt); }
RECURSIVE SubStepLoop(_, _, _)
SubStepLoop(bodies, dt, i) ==
    IF i < subSteps
    THEN Bind(PhysicsStep(bodies, dt), LAMBDA next: SubStepLoop(next, dt, i + 1))
    ELSE bodies

\* js/main.js loadConfig(configData): the bodies of the new PhysicsEngine
PageLoadConfig(configData) ==
    [i \in 1 .. Len(configData) |->
        [pos |-> JSONValue(configData)[i].pos,
         vel |-> JSONValue(configData)[i].vel,
         mass |-> JSONValue(configData)[i].mass,
         color |-> JSONValue(configData)[i].color,
         radius |-> JSONValue(configData)[i].radius]]

\* js/main.js after init(): its INITIAL_CONFIG is the application's.
PageLoaded ==
    [physics |-> PageLoadConfig(APP_CONFIG), isPaused |-> FALSE,
     simulationSpeed |-> <<1, 1>>]

InitDrivers == AppLoaded /\ page = PageLoaded

\* js/main.js timeStep 'input'
PageTimeStep(speed) ==
    /\ page' = [page EXCEPT !.simulationSpeed = speed]
    /\ UNCHANGED <<accVars, engineVars, heap, app, explorer, evalr,
                   requested>>

\* js/main.js pauseBtn 'click'
PagePauseBtn ==
    /\ page' = [page EXCEPT !.isPaused = ~@]
    /\ UNCHANGED <<accVars, engineVars, heap, app, explorer, evalr,
                   requested>>

\* js/main.js resetBtn 'click': loadConfig(INITIAL_CONFIG)
PageResetBtn ==
    /\ page' = [page EXCEPT !.physics = PageLoadConfig(APP_CONFIG),
                            !.isPaused = FALSE]
    /\ UNCHANGED <<accVars, engineVars, heap, app, explorer, evalr,
                   requested>>

\* js/main.js animate()
animate ==
    /\ ~page.isPaused
    /\ page.physics # <<>>
    /\ probe.pageFrames < MaxFrames
    /\ page' = [page EXCEPT
                   !.physics = SubStepLoop(@, SubStepDt(page.simulationSpeed),
                                           0)]
    /\ probe' = [probe EXCEPT
                    !.pageFrames = @ + 1,
                    !.dts = @ \cup {SubStepDt(page.simulationSpeed)}]
    /\ UNCHANGED <<accVars, sim1, sim2, usSim, heap, app, explorer, evalr,
                   requested>>

NextDrivers ==
    \/ Loop
    \/ PauseBtn
    \/ \E dt \in SliderDts : TimeStep(dt)
    \/ animate
    \/ PagePauseBtn
    \/ PageResetBtn
    \/ \E speed \in PageSpeeds : PageTimeStep(speed)

SpecDrivers == InitDrivers /\ [][NextDrivers]_vars

-----------------------------------------------------------------------------
(* The accelerations and the steppers applied to given bodies               *)

\* Positions a body is given: those of INITIAL_CONFIG, and two points close
\* to each other. Two bodies may be given the same one.
KernelPositions ==
    { Vector(Num(-100), 0, 0), Vector(Num(100), 0, 0),
      Vector(0, Num(-150), Num(50)), Vector(Num(3), Num(4), 0),
      Vector(Num(3), Num(-8), 0) }

\* The masses of the three bodies: those of INITIAL_CONFIG, and heavier ones.
KernelMasses == { <<Num(20), Num(20), Num(15)>>, <<Num(400), Num(250), Num(15)>> }

\* The bodies with the given positions and masses, and the velocities of
\* INITIAL_CONFIG.
KernelBodies(p, mass) ==
    [i \in 1 .. 3 |-> [APP_CONFIG[i] EXCEPT !.pos = p[i], !.mass = mass[i]]]

\* Two bodies of the state are at the same position.
Coincident(state) ==
    \E i, j \in 1 .. Len(state) : i < j /\ state[i].pos = state[j].pos

\* A physics.loadConfig(config) with the given bodies; nothing is applied
\* yet. probe keeps the input and what each application returned.
InitKernel ==
    /\ \E p1 \in KernelPositions, p2 \in KernelPositions,
          p3 \in KernelPositions, mass \in KernelMasses :
          /\ sim1 = [NewPhysicsEngine EXCEPT
                       !.bodies = loadConfig(KernelBodies(<<p1, p2, p3>>, mass))]
          /\ probe = [pc |-> "kernel",
                      config |-> KernelBodies(<<p1, p2, p3>>, mass),
                      applied |-> {}, acc |-> <<>>, pairs |-> <<>>,
                      pulls |-> <<>>, stepped |-> <<>>,
                      previous |-> <<>>]
    /\ sim2 = NewPhysicsEngine
    /\ usSim = NewPhysicsEngineUs
    /\ UnusedAccumulators
    /\ UnusedApp

\* The pairs i < j of the double loop of getAccelerations.
Pairs(n) == {ij \in (1 .. n) \X (1 .. n) : ij[1] < ij[2]}

\* this.getAccelerations(state) on the live bodies; pairs keeps what the
\* inner statements add to a zero acc for each pair alone.
GetAccelerations ==
    /\ probe.pc = "kernel"
    /\ evalr.pc # "stage"
    /\ "getAccelerations" \notin probe.applied
    /\ probe' = [probe EXCEPT
                   !.applied = @ \cup {"getAccelerations"},
                   !.acc = getAccelerations(sim1.bodies),
                   !.pairs = [ij \in Pairs(Len(sim1.bodies)) |->
                                 PairForce(sim1.bodies,
                                           [i \in 1 .. Len(sim1.bodies) |->
                                               Vector(0, 0, 0)],
                                           ij[1], ij[2])]]
    /\ UNCHANGED <<accVars, sim1, sim2, usSim, appVars>>

\* The first pass of simStability's loop on a clone of the config: pulls
\* keeps (ax, ay, az) of each body, stepped the bodies and maxD2 after it.
EvaluatorStep ==
    /\ probe.pc = "kernel"
    /\ evalr.pc # "stage"
    /\ "simStability" \notin probe.applied
    /\ Len(probe.config) = 3
    /\ probe' = [probe EXCEPT
                   !.applied = @ \cup {"simStability"},
                   !.pulls = [a \in 1 .. 3 |->
                                 PullLoop(JSONValue(probe.config), a, 1,
                                          Vector(0, 0, 0))],
                   !.stepped = SimStep(JSONValue(probe.config))]
    /\ UNCHANGED <<accVars, sim1, sim2, usSim, appVars>>

\* Configs handed to loadConfig after the first: INITIAL_CONFIG, the same
\* with the first body's mass 0 and -4, and its first two bodies alone.
KernelConfigs ==
    { APP_CONFIG,
      [APP_CONFIG EXCEPT ![1].mass = 0],
      [APP_CONFIG EXCEPT ![1].mass = Num(-4)],
      SubSeq(APP_CONFIG, 1, 2) }

\* A body of the config has mass <= 0, or the bodies are not three.
InvalidConfig(config) ==
    \/ Len(config) # 3
    \/ \E i \in 1 .. Len(config) : ~NumGt(config[i].mass, 0)

\* physics.loadConfig(config); previous keeps the bodies it replaced.
LoadConfig(config) ==
    /\ probe.pc = "kernel"
    /\ probe.applied = {}
    /\ sim1' = [sim1 EXCEPT !.bodies = loadConfig(config)]
    /\ probe' = [probe EXCEPT !.applied = {"loadConfig"},
                              !.config = config,
                              !.previous = sim1.bodies]
    /\ UNCHANGED <<accVars, sim2, usSim, appVars>>

\* The step sizes integrate is given: the fixed 0.01 and js/main.js's 0.05.
KernelDts == {fixedDt, 50}

\* The scalar a stage is advanced by from the original state: dt * 0.5 for
\* s2 and s3, dt for s4.
StageScalar(k, dt) == IF k = 4 THEN DtScalar(dt) ELSE HalfDtScalar(dt)

\* integrate(dt) up to const v1: the copy of the bodies and a1. evalr holds
\* the locals of the call: s is <<state>> and a is <<a1>>, each to grow to
\* four; previous keeps the live bodies as the call found them.
IntegrateCall(dt) ==
    /\ probe.pc = "kernel"
    /\ "integrate" \notin probe.applied
    /\ evalr.pc = "idle"
    /\ \E state \in {CopyState(sim1.bodies)} :
          evalr' = [pc |-> "stage", dt |-> dt, s |-> <<state>>,
                    a |-> <<getAccelerations(state)>>]
    /\ probe' = [probe EXCEPT !.applied = @ \cup {"integrate"},
                              !.previous = sim1.bodies]
    /\ UNCHANGED <<accVars, sim1, sim2, usSim, heap, app, explorer, page,
                   requested>>

\* The next of const s2, a2, v2; const s3, a3, v3; const s4, a4, v4
IntegrateStage ==
    /\ evalr.pc = "stage"
    /\ Len(evalr.s) < 4
    /\ \E next \in {Stage(evalr.s[1], Velocities(evalr.s[Len(evalr.s)]),
                          evalr.a[Len(evalr.a)],
                          StageScalar(Len(evalr.s) + 1, evalr.dt))} :
          evalr' = [evalr EXCEPT !.s = Append(@, next),
                                 !.a = Append(@, getAccelerations(next))]
    /\ UNCHANGED <<accVars, engineVars, heap, app, explorer, page, requested>>

\* The final loop of integrate(dt), and its return
IntegrateCommit ==
    /\ evalr.pc = "stage"
    /\ Len(evalr.s) = 4
    /\ sim1' = [sim1 EXCEPT !.bodies = Commit(@, evalr.s, evalr.a, evalr.dt)]
    /\ evalr' = [evalr EXCEPT !.pc = "committed"]
    /\ UNCHANGED <<accVars, sim2, usSim, probe, heap, app, explorer, page,
                   requested>>

NextKernel ==
    \/ GetAccelerations
    \/ EvaluatorStep
    \/ \E dt \in KernelDts : IntegrateCall(dt)
    \/ IntegrateStage
    \/ IntegrateCommit
    \/ \E config \in KernelConfigs : LoadConfig(config)

SpecKernel == InitKernel /\ [][NextKernel]_vars

-----------------------------------------------------------------------------
(* The explorer's view handlers, its sweep and the click that loads a cell   *)

\* The explorer is open on the default view with a config chosen earlier
\* from a zoomed-out map: body 3 has the velocity of the cell at 5/6, 5/6
\* of the map of range 19456, so that every cell of the maps below is
\* decided within a few steps of the evaluator.
\* The wheel is turned at most MaxWheels times, the mouse moved at most
\* MaxMoves times while dragging, and the canvas clicked at most MaxClicks
\* times.
MaxWheels == 1
MaxMoves == 1

\* The values of the two selects.
XAxes == {<<"vel", "x", "3">>, <<"mass", "1">>}
YAxes == {<<"vel", "y", "3">>, <<"vel", "z", "3">>}

\* e.deltaY > 0 ? 0.9 : 1.1
WheelFactors == {<<9, 10>>, <<11, 10>>}

\* e.clientX - this.lastMouse.x and e.clientY - this.lastMouse.y of a
\* mousemove, in canvas widths and heights: from the left edge to the right.
Moves == {<<1, 0>>}

\* Where the canvas is clicked, as ratios of its width and height: the
\* middle of the left edge.
ViewClicks == {<<<<0, 1>>, <<1, 2>>>>}

ViewConfig ==
    LET v == CellValue(0, 5, 6, Range([NewExplorer EXCEPT !.zoom = AppZoom]))
    IN  applyParam(applyParam(JSONValue(APP_CONFIG), <<"vel", "x", "3">>, v),
                   <<"vel", "y", "3">>, v)

InitView ==
    /\ heap = [NoHeap EXCEPT ![1] = APP_CONFIG, ![2] = ViewConfig]
    /\ app = [config |-> 2, isRunning |-> FALSE, pauseBtn |-> "Pause"]
    /\ sim1 = reset(NewPhysicsEngine, heap, 2)
    /\ \E g \in {generateMap([NewExplorer EXCEPT !.res = AppRes,
                                                !.hidden = FALSE], {}, 2)} :
          /\ explorer = g.explorer
          /\ requested = g.requested
    /\ probe = [EvalProbe(ViewConfig) EXCEPT
                   !.live = reset(NewPhysicsEngine, heap, 2)]
    /\ evalr = NoCall
    /\ page = NoPage
    /\ sim2 = NewPhysicsEngine
    /\ usSim = NewPhysicsEngineUs
    /\ UnusedAccumulators

\* A handler that ends with this.generateMap(this.baseConfig), after it
\* has made the explorer ex.
Regenerate(ex) ==
    /\ \E g \in {generateMap(ex, requested, ex.baseConfig)} :
          /\ explorer' = g.explorer
          /\ requested' = g.requested
    /\ probe' = [probe EXCEPT
                   !.cells = IF ex.baseConfig = null THEN @ ELSE <<>>]
    /\ UNCHANGED <<accVars, sim1, sim2, usSim, heap, app, evalr, page>>

\* xAxisParam 'change'
XAxisChange(value) ==
    /\ Idle
    /\ value # explorer.xAxis
    /\ Regenerate([explorer EXCEPT !.xAxis = value])

\* yAxisParam 'change'
YAxisChange(value) ==
    /\ Idle
    /\ value # explorer.yAxis
    /\ Regenerate([explorer EXCEPT !.yAxis = value])

\* resetViewBtn 'click'
ResetViewBtn ==
    /\ Idle
    /\ Regenerate([explorer EXCEPT !.centerX = 0, !.centerY = 0,
                                   !.zoom = <<1, 1>>])

\* canvas 'mousedown'
MouseDown ==
    /\ Idle
    /\ ~explorer.isDragging
    /\ explorer' = [explorer EXCEPT !.isDragging = TRUE,
                                    !.lastMouse = <<0, 0>>]
    /\ UNCHANGED <<accVars, engineVars, heap, app, evalr, page, requested>>

\* canvas 'mousemove' while dragging: onMouseMove(e) up to its return
MouseMove(by) ==
    /\ Idle
    /\ explorer.isDragging
    /\ probe.moves < MaxMoves
    /\ explorer' = [explorer EXCEPT
                      !.centerX = NumSub(@, NumScale(Range(explorer),
                                                     <<2 * by[1], 1>>)),
                      !.centerY = NumSub(@, NumScale(Range(explorer),
                                                     <<2 * by[2], 1>>)),
                      !.lastMouse = <<@[1] + by[1], @[2] + by[2]>>]
    /\ probe' = [probe EXCEPT !.moves = @ + 1]
    /\ UNCHANGED <<accVars, sim1, sim2, usSim, heap, app, evalr, page,
                   requested>>

\* window 'mouseup'
MouseUp ==
    /\ Idle
    /\ explorer.isDragging
    /\ Regenerate([explorer EXCEPT !.isDragging = FALSE])

\* canvas 'wheel'
Wheel(factor) ==
    /\ Idle
    /\ probe.wheels < MaxWheels
    /\ \E g \in {generateMap([explorer EXCEPT
                                !.zoom = <<@[1] * factor[1],
                                           @[2] * factor[2]>>],
                             requested, explorer.baseConfig)} :
          /\ explorer' = g.explorer
          /\ requested' = g.requested
    /\ probe' = [probe EXCEPT
                   !.wheels = @ + 1,
                   !.cells = IF explorer.baseConfig = null THEN @ ELSE <<>>]
    /\ UNCHANGED <<accVars, sim1, sim2, usSim, heap, app, evalr, page>>

\* Every handler that calls generateMap, and the sweep.
\* The button released over the canvas at the end of a drag: the window's
\* 'mouseup' handler, and after it the canvas's 'click' handler for the
\* click event of the same release.
ReleaseOnCanvas(at) ==
    /\ Idle
    /\ explorer.isDragging
    /\ explorer.baseConfig # null
    /\ probe.clicks < MaxClicks
    /\ \E g \in {generateMap([explorer EXCEPT !.isDragging = FALSE],
                             requested, explorer.baseConfig)} :
          /\ requested' = g.requested
          /\ IF g.explorer.isDragging
             THEN /\ explorer' = g.explorer
                  /\ probe' = [probe EXCEPT !.cells = <<>>,
                                            !.dragClicks = @ + 1]
                  /\ UNCHANGED <<accVars, sim1, sim2, usSim, heap, app, evalr,
                                 page>>
             ELSE /\ onClick(g.explorer, at)
                  /\ probe' = [probe EXCEPT !.cells = <<>>,
                                            !.dragClicks = @ + 1,
                                            !.clicks = @ + 1]

NextView ==
    \/ ExplorerBtn
    \/ \E value \in XAxes : XAxisChange(value)
    \/ \E value \in YAxes : YAxisChange(value)
    \/ ResetViewBtn
    \/ MouseDown
    \/ \E by \in Moves : MouseMove(by)
    \/ MouseUp
    \/ \E factor \in WheelFactors : Wheel(factor)
    \/ SweepFrame
    \/ SweepNext
    \/ SimStabilityLoop

SpecView == InitView /\ [][NextView]_vars

\* Choosing a cell of a map: the x parameter selected, the map dragged,
\* the click that loads the cell's config, and the loop on what it loaded.
NextSelect ==
    \/ \E value \in XAxes : XAxisChange(value)
    \/ MouseDown
    \/ \E by \in Moves : MouseMove(by)
    \/ MouseUp
    \/ \E at \in ViewClicks : CanvasClick(at)
    \/ \E at \in ViewClicks : ReleaseOnCanvas(at)
    \/ Loop
    \/ SweepFrame
    \/ SweepNext
    \/ SimStabilityLoop

SpecSelect == InitView /\ [][NextSelect]_vars

-----------------------------------------------------------------------------
(* Claims                                                                   *)

\* C1: starting from residual 0, when every increment is a whole number of
\* microseconds the number of sub-steps is floor(T / 10000us) of the total T
\* fed, so two runs fed the same total took the same number of sub-steps;
\* 30 calls of 0.1 s and 10 calls of 0.3 s take exactly 300 each.
C1_StepsDependOnTotalOnly ==
    /\ harness.slow.whole =>
          slowSim.stepsTaken = harness.slow.fedUs \div fixedStepUs
    /\ harness.fast.whole =>
          fastSim.stepsTaken = harness.fast.fedUs \div fixedStepUs
    /\ (harness.slow.whole /\ harness.fast.whole
          /\ harness.slow.fedUs = harness.fast.fedUs) =>
          slowSim.stepsTaken = fastSim.stepsTaken
    /\ (harness.slow.only = 1000000 /\ harness.slow.fedUs = 30 * 100000) =>
          slowSim.stepsTaken = 300
    /\ (harness.fast.only = 3000000 /\ harness.fast.fedUs = 10 * 300000) =>
          fastSim.stepsTaken = 300

\* 30 calls of step(0.1) on one accumulator and 10 calls of step(0.3) on the
\* other have been made.
C1_Witness ==
    /\ harness.slow.only = 1000000 /\ harness.slow.fedUs = 30 * 100000
    /\ harness.fast.only = 3000000 /\ harness.fast.fedUs = 10 * 300000
    /\ slowSim.stepsTaken = 300 /\ fastSim.stepsTaken = 300

\* C2: driven towards a common target time with ceil(T/d1) calls of step(d1)
\* and ceil(T/d2) calls of step(d2), both runs end with the same stepsTaken.
C2_SameStepsAtTarget ==
    script.pc = "done" => slowSim.stepsTaken = fastSim.stepsTaken


\* C3: after every return of step(), on the floating accumulator and on both
\* integer accumulators, whatever non-negative increments were given from
\* residual 0, the residual is at least 0 and less than the fixed step
\* (0.01 s, 10000 us).
C3_ResidualBelowFixedStep ==
    /\ DGeq(sim1.accumulator, DZero) /\ DLess(sim1.accumulator, D001)
    /\ 0 <= usSim.accumulatorUs /\ usSim.accumulatorUs < fixedStepUs
    /\ 0 <= slowSim.accumulatorUs /\ slowSim.accumulatorUs < fixedStepUs

\* Each accumulator has returned from a step() that ran integrate at least
\* once and left a residual that is neither 0 nor a whole increment.
C3_Witness ==
    /\ probe.pc = "accum"
    /\ probe.last > 0 /\ sim1.accumulator \notin FloatDts
    /\ probe.lastUs > 0 /\ usSim.accumulatorUs = 5000
    /\ slowSim.stepsTaken > 0 /\ slowSim.accumulatorUs = 5000

\* C5: from the same initial configuration, 100 step() calls at dt = 0.15
\* and 50 step() calls at dt = 0.30 run integrate(0.01) the same number of
\* times and end with the same sum of all position coordinates.
C5_SameIntegrationsAndState ==
    probe.pc = "done" =>
        /\ probe.integrations1 = probe.integrations2
        /\ getTotalState(sim1) = getTotalState(sim2)

\* Both loops of the script have finished, after 1499 integrate calls each.
C5_Witness ==
    /\ probe.pc = "done"
    /\ probe.integrations1 = 1499
    /\ probe.integrations2 = 1499


\* The positions, velocities and masses of a list of bodies.
Dynamics(bodies) ==
    [i \in 1 .. Len(bodies) |->
        [pos |-> bodies[i].pos, vel |-> bodies[i].vel,
         mass |-> bodies[i].mass]]

\* C6 as stated: when the escape check first succeeds after the k-th
\* executed step (k counted from 1), simStability returns exactly k/N and
\* executes no further step.
C6_ReturnsKOverN ==
    (evalr.pc = "returned" /\ probe.escapedAt > 0) =>
        /\ evalr.result[1] * steps = probe.escapedAt * evalr.result[2]
        /\ probe.executed = probe.escapedAt

\* C6, amended: when the escape check first succeeds after the k-th
\* executed step (k counted from 1), simStability returns exactly (k-1)/N,
\* the number of steps completed before the escaping one over N, and
\* executes no further step.
C6_ReturnsStepsBeforeEscapeOverN ==
    /\ (evalr.pc = "returned" /\ probe.escapedAt > 0) =>
          /\ evalr.result[1] * steps
                = (probe.escapedAt - 1) * evalr.result[2]
          /\ probe.executed = probe.escapedAt
    /\ evalr.pc = "loop" => probe.escapedAt = 0

\* A call has returned after an escape at a step that is neither the first
\* nor the last.
C6_Witness ==
    /\ evalr.pc = "returned"
    /\ probe.escapedAt > 1 /\ probe.escapedAt < steps
    /\ probe.executed = probe.escapedAt
    /\ evalr.result = <<probe.escapedAt - 1, steps>>

\* C7: simStability returns a value in [0, 1], and it returns exactly 1.0
\* if and only if the escape check failed after each of the N = 1000 steps.
C7_ScoreInUnitInterval ==
    evalr.pc = "returned" =>
        /\ evalr.result[2] > 0
        /\ 0 <= evalr.result[1] /\ evalr.result[1] <= evalr.result[2]
        /\ (evalr.result[1] = evalr.result[2])
              <=> (probe.escapedAt = 0 /\ probe.executed = steps)

\* A call has returned 1.0 after 1000 steps without an escape.
C7_Witness ==
    /\ evalr.pc = "returned"
    /\ evalr.result = FullScore
    /\ probe.executed = steps /\ probe.escapedAt = 0

\* C10: each step of the evaluator is one RK4 step at dt = 0.2, the
\* operation of PhysicsEngine.integrate, on the evaluator's cloned bodies.
C10_StepIsIntegrate ==
    (probe.pc = "eval" /\ probe.executed > 0) =>
        Dynamics(probe.after) = Dynamics(integrate(probe.before, simDt))


\* C9: applyParam(bodies, name, val), for every recognised name, adds val
\* to exactly the named field of body n (bodies[n-1]) and leaves every
\* other field of every body unchanged.
C9_AddsToNamedFieldOnly ==
    (probe.pc = "param" /\ evalr.applied > 0) =>
        LET after  == heap[evalr.bodies]
            before == probe.before
            digit  == <<"1", "2", "3">>
            Expect(old, name, n) ==
                IF probe.type = name \o <<digit[n]>>
                THEN NumAdd(old, probe.val) ELSE old
        IN  /\ Len(after) = Len(before)
            /\ \A n \in 1 .. Len(before) :
                  /\ after[n].mass = Expect(before[n].mass, <<"mass">>, n)
                  /\ \A kind \in {"pos", "vel"}, axis \in {"x", "y", "z"} :
                        after[n][kind][axis] =
                            Expect(before[n][kind][axis], <<kind, axis>>, n)
                  /\ after[n].color = before[n].color
                  /\ after[n].radius = before[n].radius

\* Both calls of a simStability have been made, the second on vel_y_3,
\* and body 3's y velocity is larger by the value given.
C9_Witness ==
    /\ probe.pc = "param" /\ evalr.applied = 2
    /\ probe.type = <<"vel", "y", "3">> /\ probe.val = Half
    /\ heap[evalr.bodies][3].vel.y = probe.before[3].vel.y + Half

\* C8: a cell evaluation and a click leave the explorer's base config as it
\* was when it was handed to generateMap, and from the call of simStability
\* to its return the base config and the live engine (bodies, accumulator
\* and dt) are what the call found.
C8_BaseAndLiveUntouched ==
    /\ explorer.baseConfig # null =>
          heap[explorer.baseConfig] = probe.shown
    /\ evalr.pc \in {"loop", "returned"} =>
          /\ heap[explorer.baseConfig] = probe.base
          /\ sim1 = probe.live

\* A call returned after a click selected a cell of the same map: the
\* selected config is another object than the base config, and differs.
C8_Witness ==
    /\ evalr.pc = "returned"
    /\ probe.executed > 0
    /\ probe.clicks > 0
    /\ app.config # explorer.baseConfig
    /\ heap[app.config] # heap[explorer.baseConfig]
    /\ heap[explorer.baseConfig] = probe.shown
    /\ sim1 = probe.live

\* C4: every RK4 step applied to a live simulation, by loop() of the
\* application or by animate() of js/main.js, is of the fixed sub-step 0.01,
\* whatever the speed sliders are set to.
C4_EveryStepIsFixedDt == probe.dts \subseteq {fixedDt}

\* C11 as stated: in the stability evaluator a step in which two bodies are
\* at the same position divides by a zero distance and gives some body a
\* non-finite acceleration.
C11_CoincidentGivesNonFinite ==
    ("simStability" \in probe.applied /\ Coincident(probe.config)) =>
        \E a \in 1 .. 3 : IsNaNVector(probe.pulls[a])

\* C11, amended: the evaluator has no special case for two bodies at the
\* same position and needs none: the distance it divides by is the root of
\* the squared separation plus 25, at least 5, so every acceleration is
\* finite and bodies at the same position pull each other by exactly zero.
C11_CoincidentPullsZero ==
    "simStability" \in probe.applied =>
        /\ \A a \in 1 .. 3 : ~IsNaNVector(probe.pulls[a])
        /\ \A a \in 1 .. 3 : ~IsNaNVector(probe.stepped.bodies[a].vel)
        /\ \A a, b \in 1 .. 3 :
              (a # b /\ probe.config[a].pos = probe.config[b].pos) =>
                  Pull(JSONValue(probe.config), a, b) = Vector(0, 0, 0)

\* The evaluator stepped three bodies given the same position.
C11_Witness ==
    /\ "simStability" \in probe.applied
    /\ probe.config[1].pos = probe.config[2].pos
    /\ probe.config[2].pos = probe.config[3].pos
    /\ probe.pulls[1] = Vector(0, 0, 0)

\* C12: getAccelerations never divides by a zero distance: for every state
\* given, also one with two bodies at the same position, every acceleration
\* it returns is finite.
C12_AccelerationsFinite ==
    "getAccelerations" \in probe.applied =>
        \A i \in 1 .. Len(probe.acc) : ~IsNaNVector(probe.acc[i])

\* C13: loadConfig rejects a config with a body of mass <= 0 or with other
\* than three bodies: the live bodies stay those it had before, and the
\* config's bodies are never those getAccelerations is applied to.
C13_InvalidConfigRejected ==
    ("loadConfig" \in probe.applied /\ InvalidConfig(probe.config)) =>
        sim1.bodies = probe.previous

\* The sum over the bodies of mass times the k component of acc (k is "x",
\* "y" or "z"), and the sum of the masses.
RECURSIVE MomentumRate(_, _, _, _)
MomentumRate(state, acc, k, i) ==
    IF i > Len(state) THEN 0
    ELSE state[i].mass * acc[i][k] + MomentumRate(state, acc, k, i + 1)

RECURSIVE TotalMass(_, _)
TotalMass(state, i) ==
    IF i > Len(state) THEN 0 ELSE state[i].mass + TotalMass(state, i + 1)

\* getAccelerations was applied to bodies of positive mass at distinct
\* positions.
C14_Applies ==
    /\ "getAccelerations" \in probe.applied
    /\ ~Coincident(sim1.bodies)
    /\ \A i \in 1 .. Len(sim1.bodies) : NumGt(sim1.bodies[i].mass, 0)

\* C14 as stated: for every pair i < j what is added to acc[i], times m_i,
\* is exactly the negation of what is added to acc[j], times m_j, and the
\* sum over the bodies of m_i * acc[i] is exactly the zero vector.
C14_ExactlyOpposite ==
    C14_Applies =>
        \A k \in {"x", "y", "z"} :
           /\ \A ij \in Pairs(Len(sim1.bodies)) :
                 sim1.bodies[ij[1]].mass * probe.pairs[ij][ij[1]][k]
                    = -(sim1.bodies[ij[2]].mass * probe.pairs[ij][ij[2]][k])
           /\ MomentumRate(sim1.bodies, probe.acc, k, 1) = 0

\* C14, amended: what is added to acc[i] and what is subtracted from acc[j]
\* are the same force vector times 1/m_i and times 1/m_j, each product
\* rounded when stored; times the masses they are opposite up to that
\* rounding (half a unit of acc per body and pair), and so is the sum of
\* m_i * acc[i] zero.
C14_OppositeUpToRounding ==
    C14_Applies =>
        \A k \in {"x", "y", "z"} :
           /\ \A ij \in Pairs(Len(sim1.bodies)) :
                 2 * Abs(sim1.bodies[ij[1]].mass * probe.pairs[ij][ij[1]][k]
                         + sim1.bodies[ij[2]].mass * probe.pairs[ij][ij[2]][k])
                    <= sim1.bodies[ij[1]].mass + sim1.bodies[ij[2]].mass
           /\ 2 * Abs(MomentumRate(sim1.bodies, probe.acc, k, 1))
                 <= (Len(sim1.bodies) - 1) * TotalMass(sim1.bodies, 1)

\* The accelerations of three bodies at distinct positions, two of them
\* close, with a force between them that the masses do not divide evenly.
C14_Witness ==
    /\ C14_Applies
    /\ Len(sim1.bodies) = 3
    /\ probe.acc[1].y # 0
    /\ MomentumRate(sim1.bodies, probe.acc, "y", 1) # 0

\* C15: integrate(dt) commits at its end: while the stages are computed the
\* live bodies are as the call found them; every stage is the original
\* state advanced by the previous stage's derivatives, with the original
\* masses; and the final loop adds the weighted deltas to each body's
\* original position and velocity, leaving the number, order and mass of
\* the bodies as they were, as one call of the integrator does.
C15_CommitsAtEnd ==
    /\ evalr.pc = "stage" => sim1.bodies = probe.previous
    /\ evalr.pc \in {"stage", "committed"} =>
          /\ evalr.s[1] = CopyState(probe.previous)
          /\ \A k \in 2 .. Len(evalr.s) :
                \A i \in 1 .. Len(probe.previous) :
                   /\ evalr.s[k][i].mass = probe.previous[i].mass
                   /\ evalr.s[k][i].pos =
                         add(probe.previous[i].pos,
                             mult(evalr.s[k - 1][i].vel,
                                  StageScalar(k, evalr.dt)))
                   /\ evalr.s[k][i].vel =
                         add(probe.previous[i].vel,
                             mult(evalr.a[k - 1][i],
                                  StageScalar(k, evalr.dt)))
    /\ evalr.pc = "committed" =>
          /\ Len(sim1.bodies) = Len(probe.previous)
          /\ \A i \in 1 .. Len(sim1.bodies) :
                /\ sim1.bodies[i].mass = probe.previous[i].mass
                /\ sim1.bodies[i].pos =
                      add(probe.previous[i].pos,
                          RK4Sum(evalr.s[1][i].vel, evalr.s[2][i].vel,
                                 evalr.s[3][i].vel, evalr.s[4][i].vel,
                                 evalr.dt))
                /\ sim1.bodies[i].vel =
                      add(probe.previous[i].vel,
                          RK4Sum(evalr.a[1][i], evalr.a[2][i], evalr.a[3][i],
                                 evalr.a[4][i], evalr.dt))
          /\ sim1.bodies = integrate(probe.previous, evalr.dt)

\* A call returned that moved a body and changed its velocity, after stages
\* that differed from the original state, the bodies being of different
\* masses.
C15_Witness ==
    /\ evalr.pc = "committed"
    /\ \E i \in 1 .. 3 :
          /\ ~IsNaNVector(sim1.bodies[i].pos)
          /\ sim1.bodies[i].pos # probe.previous[i].pos
          /\ sim1.bodies[i].vel # probe.previous[i].vel
          /\ evalr.s[4][i].pos # evalr.s[1][i].pos
          /\ evalr.s[4][i].pos # sim1.bodies[i].pos
    /\ sim1.bodies[1].mass # sim1.bodies[3].mass

\* The exact sum and difference (a >= b) of two doubles, not rounded, and
\* the whole number of times 0.01 goes into an exact value.
ExactSum(a, b) ==
    IF a[2] + b[2] >= Limb THEN <<a[1] + b[1] + 1, a[2] + b[2] - Limb>>
                           ELSE <<a[1] + b[1], a[2] + b[2]>>

ExactDifference(a, b) ==
    IF a[2] - b[2] < 0 THEN <<a[1] - b[1] - 1, a[2] - b[2] + Limb>>
                       ELSE <<a[1] - b[1], a[2] - b[2]>>

RECURSIVE FloorOfSteps(_)
FloorOfSteps(a) ==
    IF DGeq(a, D001) THEN 1 + FloorOfSteps(ExactDifference(a, D001)) ELSE 0

\* C17: a call of step() with a non-negative increment returns after
\* floor((residual before the call + increment) / fixed step) sub-steps, on
\* the floating accumulator and on the integer one.
C17_SubStepsAreTheFloor ==
    probe.pc = "accum" =>
        /\ probe.last = FloorOfSteps(ExactSum(probe.from[1], probe.from[2]))
        /\ probe.lastUs = probe.fromUs \div fixedStepUs

\* C18: step() takes a negative increment like any other: the rounded
\* increment is added to the accumulator, which may end below zero, and the
\* call runs a sub-step only if the sum has reached one fixed step; while
\* the accumulator stays below one fixed step, later calls run none either.
C18_NegativeIncrementAccepted ==
    probe.pc = "signed" =>
        /\ LET sum == probe.fromUs + RoundUs(probe.dtUs)
           IN  IF sum < fixedStepUs
               THEN probe.lastUs = 0 /\ usSim.accumulatorUs = sum
               ELSE probe.lastUs > 0 /\ usSim.accumulatorUs \in
                                            0 .. fixedStepUs - 1
        /\ LET sum == probe.fromTest + RoundUs(probe.dtTest)
           IN  IF sum < fixedStepUs
               THEN probe.lastTest = 0 /\ slowSim.accumulatorUs = sum
               ELSE probe.lastTest > 0 /\ slowSim.accumulatorUs \in
                                              0 .. fixedStepUs - 1

\* A negative increment left the accumulator below zero, and a later call
\* with a positive increment that has not brought it back to one fixed step
\* ran no sub-step, on both accumulators.
C18_Witness ==
    /\ probe.pc = "signed"
    /\ probe.fromUs < 0 /\ probe.dtUs > 0 /\ probe.lastUs = 0
    /\ usSim.accumulatorUs < 0
    /\ probe.fromTest < 0 /\ probe.dtTest > 0 /\ probe.lastTest = 0
    /\ slowSim.accumulatorUs < 0

\* C16: in every state of the live engine, also after a config chosen in
\* the explorer with an offset on a mass has been loaded, every body's mass
\* is strictly positive; and a body's mass changes only when a config is
\* loaded (here by the click on the map).
C16_LiveMassesPositive ==
    /\ [](\A i \in 1 .. Len(sim1.bodies) : NumGt(sim1.bodies[i].mass, 0))
    /\ [][(\E i \in 1 .. Len(sim1.bodies) :
              sim1'.bodies[i].mass # sim1.bodies[i].mass)
          => probe'.clicks # probe.clicks]_vars

\* The cells of a res x res map in the order of a sweep: column by column,
\* x increasing, and y increasing within a column.
SweepOrder(res) ==
    [k \in 1 .. res * res |-> <<(k - 1) \div res, (k - 1) % res>>]

IsPrefix(s, t) == Len(s) <= Len(t) /\ s = SubSeq(t, 1, Len(s))

\* C19: once generateMap has been called, the sweep it replaces evaluates
\* no further cell (the cells evaluated since the call are the first cells
\* of the new sweep, in its order), at most one frame callback is pending
\* at any time, and a sweep is only ever replaced between two columns: the
\* cells it had evaluated are whole columns.
C19_OneSweepAtATime ==
    /\ [](/\ Cardinality(requested) <= 1
          /\ IsPrefix(probe.cells, SweepOrder(explorer.res)))
    /\ [][probe.cells # <<>> /\ probe'.cells = <<>>
          => Len(probe.cells) % explorer.res = 0]_vars

\* A sweep was replaced after its second column (the progress bar still
\* shows 2/3) and the new sweep is inside its first column.
C19_Witness ==
    /\ explorer.progress = <<100 * 2, AppRes>>
    /\ Len(probe.cells) \in 1 .. AppRes - 1
    /\ evalr.pc = "loop"
    /\ requested = {}
    /\ explorer.xAxis = <<"mass", "1">>

\* C20: a sweep that is not replaced evaluates the cells in the sweep's
\* order, each once; between two frames the columns evaluated are the x of
\* the pending frame (one column per frame); and when no frame is pending
\* every cell has been evaluated, the progress bar is at 100% and the
\* labels are drawn, which happens only then.
C20_SweepCoversEveryCell ==
    /\ IsPrefix(probe.cells, SweepOrder(explorer.res))
    /\ Idle =>
          \A cb \in requested :
              /\ cb.x <= explorer.res
              /\ Len(probe.cells) = cb.x * explorer.res
    /\ (Idle /\ requested = {}) =>
          /\ probe.cells = SweepOrder(explorer.res)
          /\ explorer.progress = <<100, 1>>
          /\ explorer.labels
    /\ explorer.labels => requested = {} /\ Idle

\* A sweep started by a change of the x parameter ran to its end.
C20_Witness ==
    /\ Idle
    /\ requested = {}
    /\ probe.cells = SweepOrder(AppRes)
    /\ explorer.labels
    /\ explorer.progress = <<100, 1>>
    /\ explorer.xAxis = <<"mass", "1">>

\* C21: after any sequence of step(dt) calls on an integer accumulator
\* that started at zero, the sub-steps executed times fixedStepUs plus
\* accumulatorUs is the sum of Math.round(dt * 1000000) over the calls.
C21_MicrosecondsConserved ==
    probe.pc = "signed" =>
        /\ probe.stepsUs * fixedStepUs + usSim.accumulatorUs = probe.sumUs
        /\ slowSim.stepsTaken * fixedStepUs + slowSim.accumulatorUs
               = probe.sumTest

\* Three calls on each accumulator, sub-steps executed and a residual left
\* that is not a whole number of steps.
C21_Witness ==
    /\ probe.pc = "signed"
    /\ probe.callsUs = MaxSignedCalls /\ probe.callsTest = MaxSignedCalls
    /\ probe.stepsUs >= 2 /\ slowSim.stepsTaken >= 2
    /\ usSim.accumulatorUs \in 1 .. fixedStepUs - 1
    /\ slowSim.accumulatorUs \in 1 .. fixedStepUs - 1

\* C22: the click event that ends a drag-pan (mousedown, mousemove,
\* mouseup, click) selects no configuration: onClick does not run for it,
\* and the config and the live engine stay as they were.
C22_DragClickSelectsNothing ==
    [][(probe'.dragClicks # probe.dragClicks
        /\ explorer.lastMouse # <<0, 0>>)
       => /\ probe'.clicks = probe.clicks
          /\ app' = app
          /\ sim1' = sim1]_vars

\* C23: after any sequence of pause, reset, open-explorer, close-explorer
\* and select events the pause button reads 'Pause' exactly when the
\* simulation is running and 'Resume' exactly when it is not.
C23_LabelTellsRunning ==
    probe.pc = "eval" => app.pauseBtn = innerText(app.isRunning)

\* C24: once the overlay has been hidden by the close button or by the
\* selection of a config, no further cell of the map is evaluated.
C24_HiddenExplorerEvaluatesNothing ==
    [][explorer.hidden => Len(probe'.cells) <= Len(probe.cells)]_vars

=============================================================================
